---- MODULE Spec2Model ----
(***************************************************************************)
(* Model of the normalisation core of the hotel scrapers:                  *)
(*   - src/sanitize_hotels.py : _parse_rooms (room / image de-duplication) *)
(*     and sanitize_hotels_from_csv (one hotel record per CSV row);        *)
(*   - src/extractor.py       : _split_price_components and _to_float      *)
(*     (price text -> currency, amount text, amount value);                *)
(*   - src/dubai_sc.py        : the HTML cache of extract_hotel_details    *)
(*     and the batch loop of main.                                         *)
(*                                                                         *)
(* Python strings are sequences of one-character strings, so that strip,   *)
(* rfind, replace and the regular expression are computed, not assumed.    *)
(* JSON scalars are records [t, s]: t is the JSON type and s the text      *)
(* str() gives for the value.  The value of a JSON column is a record      *)
(* [t, v]: v is the list, the pairs of the object, or the text of the      *)
(* number, boolean or string.  Numbers that are computed with (prices,     *)
(* ratings) are integers counted in thousandths: 4300 is 4.3.              *)
(***************************************************************************)
EXTENDS Integers, Sequences, FiniteSets, TLC

\* ---------------------------------------------------------------- bounds
MaxRooms == 3
MaxImages == 2
MaxRows == 2
MaxTextLen == 4
MaxTokenLen == 6

\* ------------------------------------------------------- program constants
GalleryLimit == 6
IdHexLen == 16

VARIABLES
    \* _parse_rooms (one call, its loop unrolled item by item)
    rpc,            \* position in _parse_rooms: "enter", "loop", "done"
    rooms_is_list,  \* isinstance(rooms_raw, list)
    hotel_gallery,  \* the hotel_gallery argument
    used_images,    \* the used_images set of the (latest) _parse_rooms call
    rooms,          \* the rooms list built so far
    item,           \* the raw item the loop consumed last
    n_items,        \* how many raw items the loop has consumed
    \* sanitize_hotels_from_csv
    csv_rows,       \* the rows the reader has yielded so far
    sanitized,      \* the sanitized list
    csv_error,      \* "none", or the exception that ended the call
    \* _split_price_components
    ppc,            \* "call" before the call, "ret" after it
    text,           \* the text argument
    parsed,         \* the returned (currency, amount_text, amount_value)
    \* dubai_sc.main and extract_hotel_details
    mpc,                    \* position in main: "loop", "done"
    use_cache,              \* USE_CACHE
    html_cache,             \* html_cache/: the HTML stored under each file name
    downloads,              \* how often driver.get was called for each hotel URL
    total_target,           \* max_hotels
    entry,                  \* the entry of all_hotel_entries consumed last
    n_entries,              \* how many entries the loop has consumed
    hotel_data,
    current_batch_data,
    current_batch_num,
    next_batch_threshold,
    skipped_count,
    csv_file,               \* the data rows of OUTPUT_PATH
    csv_fields,             \* the columns of its header and of each data row
    json_file,              \* the list in the JSON backup
    \* single calls of the helpers of sanitize_hotels.py
    dpc,                    \* "call" before the helper ran, "ret" after
    derive_fn,              \* which helper is called
    derive_arg,             \* its arguments
    derive_result,          \* what it returned
    \* collect_hotel_links
    cpc,                    \* "loop" inside the while loop, "done" after return
    max_results,
    page,                   \* the hrefs of the result links now on the page
    entries,                \* the URLs of the entries collected
    seen,
    idle_rounds,
    returned                \* the URLs of the entries returned

vars == <<rpc, rooms_is_list, hotel_gallery, used_images, rooms, item, n_items,
          csv_rows, sanitized, csv_error, ppc, text, parsed,
          mpc, use_cache, html_cache, downloads, total_target, entry, n_entries,
          hotel_data, current_batch_data, current_batch_num, next_batch_threshold,
          skipped_count, csv_file, csv_fields, json_file,
          dpc, derive_fn, derive_arg, derive_result,
          cpc, max_results, page, entries, seen, idle_rounds, returned>>

roomsVars == <<rpc, rooms_is_list, hotel_gallery, rooms, item, n_items>>
csvVars == <<csv_rows, sanitized, csv_error>>
priceVars == <<ppc, text, parsed>>
scrapeVars == <<mpc, use_cache, html_cache, downloads, total_target, entry, n_entries,
                hotel_data, current_batch_data, current_batch_num, next_batch_threshold,
                skipped_count, csv_file, csv_fields, json_file>>
deriveVars == <<dpc, derive_fn, derive_arg, derive_result>>
collectVars == <<cpc, max_results, page, entries, seen, idle_rounds, returned>>

\* ------------------------------------------------------------ Python data
SeqsUpTo(S, n) == UNION {[1..k -> S] : k \in 0..n}

Range(s) == {s[i] : i \in 1..Len(s)}

\* variant: the whole list is taken
TakeAll(s, n) == s

\* s[:n]
Take(s, n) == SubSeq(s, 1, IF Len(s) < n THEN Len(s) ELSE n)

\* one-character strings: "nbsp" is U+00A0 and "euro" is U+20AC
SPACE == " "
NBSP == "nbsp"
EURO == "euro"

\* str.isspace() for one character: NBSP (U+00A0) is whitespace in Python 3
IsSpace(c) == c \in {SPACE, NBSP}

RECURSIVE LStrip(_)
LStrip(s) == IF s # <<>> /\ IsSpace(Head(s)) THEN LStrip(Tail(s)) ELSE s

RECURSIVE RStrip(_)
RStrip(s) ==
    IF s # <<>> /\ IsSpace(s[Len(s)]) THEN RStrip(SubSeq(s, 1, Len(s) - 1)) ELSE s

\* str.strip()
Strip(s) == RStrip(LStrip(s))

JStr(s) == [t |-> "str", s |-> s]
JNum(s) == [t |-> "num", s |-> s]
JNull == [t |-> "null", s |-> <<>>]

JList(v) == [t |-> "list", v |-> v]
JNoList == [t |-> "null", v |-> <<>>]

\* str.isdigit() of one character
IsDigit(c) == c \in {"0", "1", "2", "3", "4", "5", "6", "7", "8", "9"}

\* the other values a JSON column can hold: t is "num", "bool", "str" or
\* "object", and v the text of the scalar or the (key, value) pairs
JValue(t, v) == [t |-> t, v |-> v]

\* isinstance(x, (str, int, float))
IsStrIntFloat(x) == x.t \in {"str", "num"}

\* bool(x) of a parsed value: None, the empty list, object and string, 0
\* and false are falsy
Truthy(f) ==
    \/ f.t \in {"list", "object", "str"} /\ f.v # <<>>
    \/ f.t = "num" /\ f.v # <<"0">>
    \/ f.t = "bool" /\ f.v = <<"true">>

\* variant: the text is left as it is
LowerKeep(s) == s

\* str.lower() for ASCII letters
Lower(s) ==
    LET upper == <<"A", "B", "C", "D", "E", "F", "G", "H", "I", "J", "K", "L", "M",
                   "N", "O", "P", "Q", "R", "S", "T", "U", "V", "W", "X", "Y", "Z">>
        lower == <<"a", "b", "c", "d", "e", "f", "g", "h", "i", "j", "k", "l", "m",
                   "n", "o", "p", "q", "r", "s", "t", "u", "v", "w", "x", "y", "z">>
    IN [i \in 1..Len(s) |->
           IF \E k \in 1..26 : upper[k] = s[i]
           THEN lower[CHOOSE k \in 1..26 : upper[k] = s[i]]
           ELSE s[i]]

\* str.startswith(prefix)
StartsWith(s, prefix) == Len(s) >= Len(prefix) /\ SubSeq(s, 1, Len(prefix)) = prefix

\* lines 117-127: the stripped text of every non-blank str/int/float entry
\* that does not start with "see all"; [] for anything but a list
CleanServices(services) ==
    IF services.t = "list"
    THEN LET Keep(x) ==
                 /\ IsStrIntFloat(x)
                 /\ Strip(x.s) # <<>>
                 /\ ~StartsWith(Lower(Strip(x.s)), <<"s", "e", "e", SPACE, "a", "l", "l">>)
             kept == SelectSeq(services.v, Keep)
         IN [i \in 1..Len(kept) |-> Strip(kept[i].s)]
    ELSE <<>>

\* --------------------------------------- numbers, counted in thousandths
NoFloat == [ok |-> FALSE, m |-> 0]
Float(m) == [ok |-> TRUE, m |-> m]

RECURSIVE DigitsValue(_)
DigitsValue(s) ==
    IF s = <<>> THEN 0
    ELSE 10 * DigitsValue(SubSeq(s, 1, Len(s) - 1))
         + (CHOOSE d \in 0..9 :
                <<"0", "1", "2", "3", "4", "5", "6", "7", "8", "9">>[d + 1] = s[Len(s)])

\* float(s) for the numerals of the rows (an optional "-", digits, at most
\* one "." and at most three decimals); None where float raises ValueError
FloatOfText(s) ==
    LET negative == s # <<>> /\ s[1] = "-"
        body == IF negative THEN Tail(s) ELSE s
        dots == {i \in 1..Len(body) : body[i] = "."}
        dot == IF dots = {} THEN Len(body) + 1 ELSE CHOOSE i \in dots : TRUE
        whole == SubSeq(body, 1, dot - 1)
        fraction == SubSeq(body, dot + 1, Len(body))
    IN IF /\ Cardinality(dots) <= 1
          /\ whole \o fraction # <<>>
          /\ \A i \in 1..Len(body) : i \in dots \/ IsDigit(body[i])
          /\ Len(fraction) <= 3
       THEN Float((IF negative THEN -1 ELSE 1)
                  * (1000 * DigitsValue(whole)
                     + DigitsValue(fraction \o SubSeq(<<"0", "0", "0">>, 1, 3 - Len(fraction)))))
       ELSE NoFloat

\* lines 70-81: _to_float of a JSON scalar or a CSV cell
SanitizerToFloat(value) ==
    IF value.t = "num" THEN FloatOfText(value.s)
    ELSE IF value.t = "str" THEN FloatOfText(Strip(value.s))
    ELSE NoFloat

\* round(x, 2); no number of the rows ends in 5 thousandths, where the
\* result depends on the binary value of the float
Round2(m) == (m - (m % 10)) + (IF m % 10 > 5 THEN 10 ELSE 0)

\* ------------------------------------------------- _parse_rooms (130-246)
\* variant: the name is only tested for emptiness, not stripped first
NameUsableNoStrip(it) == it.name.t = "str" /\ it.name.s # <<>>

\* the test of lines 155-158: the name is a string with a non-blank character
NameUsable(it) ==
    /\ it.name.t = "str"
    /\ it.name.s # <<>>
    /\ Strip(it.name.s) # <<>>

\* line 198: item.get("gallery") or item.get("images")
RoomImagesRaw(it) == IF Truthy(it.gallery) THEN it.gallery ELSE it.images

\* lines 199-206: the stripped text of every non-blank str/int/float entry
CleanImages(raw) ==
    IF raw.t = "list"
    THEN LET Keep(x) == IsStrIntFloat(x) /\ Strip(x.s) # <<>>
             kept == SelectSeq(raw.v, Keep)
         IN [i \in 1..Len(kept) |-> Strip(kept[i].s)]
    ELSE <<>>

\* variant: the used set is not consulted
AvailableImagesAll(imgs, used) == imgs

\* lines 209 and 221: [img for img in imgs if img not in used_images]
AvailableImages(imgs, used) ==
    LET Unused(x) == x \notin used IN SelectSeq(imgs, Unused)

\* variant: the fallback takes the hotel gallery without filtering it
RoomGalleryHotelUnfiltered(room_images, hgallery, used) ==
    LET Unused(x) == x \notin used
        available_room_images == SelectSeq(room_images, Unused)
    IN IF available_room_images # <<>>
       THEN Take(available_room_images, GalleryLimit)
       ELSE Take(hgallery, GalleryLimit)

\* lines 208-231: the room's own unused images, else the hotel's, else none
RoomGallery(room_images, hgallery, used) ==
    LET available_room_images == AvailableImages(room_images, used)
        available_hotel_images == AvailableImages(hgallery, used)
    IN IF available_room_images # <<>>
       THEN Take(available_room_images, GalleryLimit)
       ELSE IF available_hotel_images # <<>>
            THEN Take(available_hotel_images, GalleryLimit)
            ELSE <<>>

\* variant: the cover is the last image of the gallery
RoomImageLast(room_gallery) ==
    IF room_gallery # <<>> THEN room_gallery[Len(room_gallery)] ELSE <<>>

\* lines 217, 226, 230: room_gallery[0] if room_gallery else ""
RoomImage(room_gallery) == IF room_gallery # <<>> THEN room_gallery[1] ELSE <<>>

\* line 161: _to_float(price_amount) or _to_float(price)
PriceAmount(it) ==
    LET first == SanitizerToFloat(it.price_amount)
    IN IF first.ok /\ first.m # 0 THEN first ELSE SanitizerToFloat(it.price)

\* line 238: round(price_amount, 2) if price_amount is not None else 0.0
RoomPrice(it) == IF PriceAmount(it).ok THEN Round2(PriceAmount(it).m) ELSE 0

\* one iteration of the loop of lines 152-244: the new used_images and rooms
ParseRoomsItem(it, hgallery, used, rs) ==
    IF ~it.isdict \/ ~NameUsable(it)
    THEN [used |-> used, rooms |-> rs]
    ELSE LET room_gallery == RoomGallery(CleanImages(RoomImagesRaw(it)), hgallery, used)
         IN [used |-> used \cup Range(room_gallery),
             rooms |-> Append(rs, [name |-> it.name.s,
                                   image |-> RoomImage(room_gallery),
                                   price |-> RoomPrice(it),
                                   gallery |-> room_gallery])]

\* variant: the set of the previous call is kept
UsedAtStartKeep(previous) == previous

\* line 150: every call starts from a fresh set, whatever the last call left
UsedAtStart(previous) == {}

\* the whole loop over a list of raw items, from the used set given
RECURSIVE ParseRoomsFrom(_, _, _, _)
ParseRoomsFrom(items, hgallery, used, rs) ==
    IF items = <<>>
    THEN [used |-> used, rooms |-> rs]
    ELSE LET r == ParseRoomsItem(Head(items), hgallery, used, rs)
         IN ParseRoomsFrom(Tail(items), hgallery, r.used, r.rooms)

\* ------------------------------------------------ inputs of _parse_rooms
IMG_A == <<"a">>
IMG_PAD_A == <<SPACE, "a">>
IMG_B == <<"b">>

\* more distinct URLs than one gallery can hold
UrlMarks == <<"1", "2", "3", "4", "5", "6", "7", "8", "9">>

LongImages == [i \in 1..(GalleryLimit + 1) |-> <<"u", UrlMarks[i]>>]

RawImages == {JStr(IMG_A), JStr(IMG_PAD_A), JStr(IMG_B)}

\* lists with entries that are blank, not a string, or a number
OddImageLists ==
    {<<JStr(<<SPACE>>)>>, <<JNull, JStr(IMG_A)>>, <<JStr(<<>>), JStr(IMG_B)>>,
     <<JNum(<<"7">>), JStr(IMG_A)>>}

GalleryFields ==
    {JNoList} \cup {JList(v) : v \in SeqsUpTo(RawImages, MaxImages) \cup OddImageLists}
              \cup {JList([i \in 1..Len(LongImages) |-> JStr(LongImages[i])])}

AltImages == JList(<<JStr(IMG_B)>>)

ImageFieldPairs ==
    {<<g, JNoList>> : g \in GalleryFields}
    \cup {<<g, AltImages>> : g \in {JNoList, JList(<<>>), JList(<<JStr(IMG_A)>>)}}

RoomNames == {JStr(<<SPACE, "K">>), JStr(<<SPACE>>), JStr(<<>>), JNull, JNum(<<"7">>)}

NonDictItem ==
    [isdict |-> FALSE, name |-> JNull, gallery |-> JNoList, images |-> JNoList,
     price_amount |-> JNull, price |-> JNull]

UsableNames == {n \in RoomNames : n.t = "str" /\ Strip(n.s) # <<>>}

\* every usable name with every image field; the other names with or
\* without an image
RoomItems ==
    {[isdict |-> TRUE, name |-> n, gallery |-> p[1], images |-> p[2],
      price_amount |-> JNull, price |-> JNull] :
        n \in UsableNames, p \in ImageFieldPairs}
    \cup {[isdict |-> TRUE, name |-> n, gallery |-> g, images |-> JNoList,
           price_amount |-> JNull, price |-> JNull] :
        n \in RoomNames \ UsableNames, g \in {JNoList, JList(<<JStr(IMG_A)>>)}}
    \cup {NonDictItem}

\* what sanitize_hotels_from_csv passes: non-blank strings, not stripped
HotelGalleries ==
    {<<>>, <<IMG_A>>, <<IMG_A, IMG_A>>, <<IMG_A, IMG_B>>, <<IMG_B, IMG_PAD_A>>, LongImages}

\* ------------------------------------------------------------ idle values
NoParsed == [currency |-> JNull, amount_text |-> JNull, amount_value |-> JNull]

PriceIdle == ppc = "idle" /\ text = JNull /\ parsed = NoParsed

CsvIdle == csv_rows = <<>> /\ sanitized = <<>> /\ csv_error = "none"

NoUrl == [country |-> "none", slug |-> 0]

NoEntry == [valid |-> FALSE, url |-> NoUrl, has_rooms |-> FALSE, priced |-> FALSE]

\* an output file that has neither a header nor rows
NoFields == [header |-> <<>>, rows |-> <<>>]

NoDerived == [quantity |-> 0, category |-> "", data |-> <<>>]

NoArg == [availability |-> JNoList, title |-> <<>>, description |-> <<>>, data |-> <<>>]

DeriveIdle ==
    /\ dpc = "idle"
    /\ derive_fn = "none"
    /\ derive_arg = NoArg
    /\ derive_result = NoDerived

CollectIdle ==
    /\ cpc = "idle"
    /\ max_results = 0
    /\ page = <<>>
    /\ entries = <<>>
    /\ seen = {}
    /\ idle_rounds = 0
    /\ returned = <<>>

ScrapeIdle ==
    /\ mpc = "idle"
    /\ use_cache = FALSE
    /\ html_cache = <<>>
    /\ downloads = <<>>
    /\ total_target = 0
    /\ entry = NoEntry
    /\ n_entries = 0
    /\ hotel_data = <<>>
    /\ current_batch_data = <<>>
    /\ current_batch_num = 0
    /\ next_batch_threshold = 0
    /\ skipped_count = 0
    /\ csv_file = <<>>
    /\ csv_fields = NoFields
    /\ json_file = <<>>

\* ------------------------------------------ _parse_rooms as a state machine
RoomsInit ==
    /\ rpc = "enter"
    /\ rooms_is_list \in BOOLEAN
    /\ hotel_gallery \in HotelGalleries
    /\ used_images = {}
    /\ rooms = <<>>
    /\ item = NonDictItem
    /\ n_items = 0
    /\ CsvIdle
    /\ PriceIdle
    /\ ScrapeIdle
    /\ DeriveIdle
    /\ CollectIdle

\* lines 131-150
ParseRoomsEnter ==
    /\ rpc = "enter"
    /\ rooms' = <<>>
    /\ IF rooms_is_list
       THEN rpc' = "loop" /\ used_images' = UsedAtStart(used_images)
       ELSE rpc' = "done" /\ UNCHANGED used_images
    /\ UNCHANGED <<rooms_is_list, hotel_gallery, item, n_items>>
    /\ UNCHANGED <<csvVars, priceVars, scrapeVars, deriveVars, collectVars>>

\* lines 152-244, for the next item of rooms_raw
ParseRoomsNext(it) ==
    /\ rpc = "loop"
    /\ n_items < MaxRooms
    /\ LET r == ParseRoomsItem(it, hotel_gallery, used_images, rooms)
       IN used_images' = r.used /\ rooms' = r.rooms
    /\ item' = it
    /\ n_items' = n_items + 1
    /\ UNCHANGED <<rpc, rooms_is_list, hotel_gallery>>
    /\ UNCHANGED <<csvVars, priceVars, scrapeVars, deriveVars, collectVars>>

\* line 246, once rooms_raw is exhausted
ParseRoomsReturn ==
    /\ rpc = "loop"
    /\ rpc' = "done"
    /\ UNCHANGED <<rooms_is_list, hotel_gallery, used_images, rooms, item, n_items>>
    /\ UNCHANGED <<csvVars, priceVars, scrapeVars, deriveVars, collectVars>>

RoomsNext ==
    \/ ParseRoomsEnter
    \/ \E it \in RoomItems : ParseRoomsNext(it)
    \/ ParseRoomsReturn

RoomsSpec == RoomsInit /\ [][RoomsNext]_vars

\* --------------------------------- sanitize_hotels_from_csv (269-345)
\* (row.get(name) or ""): a missing cell reads as the empty string
CellText(c) == IF c.t = "str" THEN c.s ELSE <<>>

\* lines 52-67 over a column that is blank, unparsable or JSON text: the
\* parsed value, None when there is none
SafeJsonLoads(col) == IF col.kind = "json" THEN col.val ELSE JNoList

\* line 290: iterating (gallery_raw or []) raises TypeError when
\* gallery_raw is a number other than 0, or true
GalleryRaises(gallery_raw) == Truthy(gallery_raw) /\ gallery_raw.t \in {"num", "bool"}

\* line 290: what iterating (gallery_raw or []) yields: the entries of a
\* list, the characters of a string, the keys of an object
GalleryEntries(gallery_raw) ==
    IF ~Truthy(gallery_raw) THEN <<>>
    ELSE IF gallery_raw.t = "list" THEN gallery_raw.v
    ELSE IF gallery_raw.t = "str"
    THEN [i \in 1..Len(gallery_raw.v) |-> JStr(<<gallery_raw.v[i]>>)]
    ELSE IF gallery_raw.t = "object"
    THEN [i \in 1..Len(gallery_raw.v) |-> JStr(gallery_raw.v[i][1])]
    ELSE <<>>

\* line 290: the non-blank strings of the gallery column, as they are
HotelGalleryOf(gallery_raw) ==
    LET Keep(g) == g.t = "str" /\ Strip(g.s) # <<>>
        kept == SelectSeq(GalleryEntries(gallery_raw), Keep)
    IN [i \in 1..Len(kept) |-> kept[i].s]

\* variant: no facilities give the rating 0.0
DeriveRatingZeroDefault(services) ==
    IF services = <<>> THEN 0
    ELSE Round2(3500 + (IF 30 * Len(services) < 1500 THEN 30 * Len(services) ELSE 1500))

\* lines 249-254: 4.0 without services, else
\* round(3.5 + min(1.5, (len(services) / 50.0) * 1.5), 2)
DeriveRating(services) ==
    IF services = <<>> THEN 4000
    ELSE Round2(3500 + (IF 30 * Len(services) < 1500 THEN 30 * Len(services) ELSE 1500))

\* lines 312-316: half the rating of the row (ratings have at most two
\* decimals), else the rating derived from the services
HotelRating(rating_cell, services) ==
    LET csv_rating == SanitizerToFloat(rating_cell)
    IN IF csv_rating.ok THEN csv_rating.m \div 2 ELSE DeriveRating(services)

CURRENT_PRICE_AMOUNT ==
    <<"c", "u", "r", "r", "e", "n", "t", "_", "p", "r", "i", "c", "e", "_",
      "a", "m", "o", "u", "n", "t">>

\* dict.get(key) of a parsed object
ObjectGet(obj, key) ==
    IF \E i \in 1..Len(obj.v) : obj.v[i][1] = key
    THEN obj.v[CHOOSE i \in 1..Len(obj.v) : obj.v[i][1] = key][2]
    ELSE JNull

\* variant: a search price counts only when it is positive
DerivePricePositiveOnly(search_pricing, rs) ==
    LET v == IF search_pricing.t = "object"
             THEN SanitizerToFloat(ObjectGet(search_pricing, CURRENT_PRICE_AMOUNT))
             ELSE NoFloat
        positive == {i \in 1..Len(rs) : rs[i].price > 0}
    IN IF v.ok /\ v.m > 0 THEN v
       ELSE IF positive # {}
       THEN Float(rs[CHOOSE i \in positive : \A j \in positive : i <= j].price)
       ELSE NoFloat

\* lines 257-266: the search price when it is a number, else the first
\* positive room price, else None
DerivePrice(search_pricing, rs) ==
    LET v == IF search_pricing.t = "object"
             THEN SanitizerToFloat(ObjectGet(search_pricing, CURRENT_PRICE_AMOUNT))
             ELSE NoFloat
        positive == {i \in 1..Len(rs) : rs[i].price > 0}
    IN IF v.ok THEN v
       ELSE IF positive # {}
       THEN Float(rs[CHOOSE i \in positive : \A j \in positive : i <= j].price)
       ELSE NoFloat

\* line 335: round(float(price), 2) if price is not None else 0.0
HotelPrice(price) == IF price.ok THEN Round2(price.m) ELSE 0

\* lines 108-114 and 309: _first_or_none(gallery) or ""
FirstOrEmpty(items) ==
    LET NonEmpty(x) == x # <<>>
        kept == SelectSeq(items, NonEmpty)
    IN IF kept # <<>> THEN kept[1] ELSE <<>>

QUOTE == "\""

\* json.dumps([title, description]) for texts that need no escaping
JsonDumpsPair(title, description) ==
    <<"[", QUOTE>> \o title \o <<QUOTE, ",", SPACE, QUOTE>> \o description \o <<QUOTE, "]">>

\* variant: the title is preferred to the url
HotelIdBasisTitleFirst(url, title, description) ==
    IF title # <<>> THEN title
    ELSE IF url # <<>> THEN url
    ELSE JsonDumpsPair(title, description)

\* line 320: url or title or json.dumps([title, description])
HotelIdBasis(url, title, description) ==
    IF url # <<>> THEN url
    ELSE IF title # <<>> THEN title
    ELSE JsonDumpsPair(title, description)

HexChars == <<"0", "1", "2", "3", "4", "5", "6", "7", "8", "9", "a", "b", "c", "d", "e", "f">>

BasisChars == <<"u", "v", "t", "d", "[", "]", QUOTE, ",", SPACE>>

CharCode(c) == CHOOSE i \in 1..Len(BasisChars) : BasisChars[i] = c

RECURSIVE Mix(_, _)
Mix(s, h) == IF s = <<>> THEN h ELSE Mix(Tail(s), (h * 31 + CharCode(Head(s))) % 65521)

\* sha1(basis.encode("utf-8")).hexdigest(): 40 hexadecimal characters that
\* depend on the bytes of the basis only (a stand-in digest, not SHA-1)
Sha1HexDigest(basis) ==
    LET h == Mix(basis, 7)
    IN [k \in 1..40 |-> HexChars[(((h \div (k * k)) + h * k) % 16) + 1]]

\* line 321: hexdigest()[:16]
HotelId(basis) == SubSeq(Sha1HexDigest(basis), 1, IdHexLen)

\* line 297: row.get("rooms") or row.get("") or ""
RoomsColumn(row) == IF row.rooms.kind # "blank" THEN row.rooms ELSE row.unnamed

\* lines 275-343: the hotel record of one row, and the used set that the
\* call of _parse_rooms leaves
SanitizeRow(row, previous_used) ==
    LET title == Strip(CellText(row.title))
        description == Strip(CellText(row.description))
        url == Strip(CellText(row.url))
        services == CleanServices(SafeJsonLoads(row.facilities))
        gallery == HotelGalleryOf(SafeJsonLoads(row.gallery))
        rooms_raw == SafeJsonLoads(RoomsColumn(row))
        parsed_rooms ==
            IF rooms_raw.t = "list"
            THEN ParseRoomsFrom(rooms_raw.v, gallery, UsedAtStart(previous_used), <<>>)
            ELSE [used |-> previous_used, rooms |-> <<>>]
    IN [used |-> parsed_rooms.used,
        raises |-> GalleryRaises(SafeJsonLoads(row.gallery)),
        entry |-> [id |-> HotelId(HotelIdBasis(url, title, description)),
                   title |-> IF title # <<>> THEN title ELSE <<"Untitled">>,
                   description |-> IF description # <<>> THEN description
                                   ELSE IF title # <<>> THEN <<"Stay at ">> \o title
                                   ELSE <<>>,
                   image |-> FirstOrEmpty(gallery),
                   gallery |-> gallery,
                   price |-> HotelPrice(DerivePrice(SafeJsonLoads(row.search_pricing),
                                                    parsed_rooms.rooms)),
                   rating |-> HotelRating(row.rating, services),
                   service |-> services,
                   rooms |-> parsed_rooms.rooms]]

\* ---------------------------------------------------- rows of the CSV
JsonCol(v) == [kind |-> "json", val |-> v]
BlankCol == [kind |-> "blank", val |-> JNoList]
BadCol == [kind |-> "bad", val |-> JNoList]

NamedRoom(g) ==
    [isdict |-> TRUE, name |-> JStr(<<"K">>), gallery |-> g, images |-> JNoList,
     price_amount |-> JNull, price |-> JNull]

NamelessRoom(g) ==
    [isdict |-> TRUE, name |-> JNull, gallery |-> g, images |-> JNoList,
     price_amount |-> JNull, price |-> JNull]

\* a room without images, with the two price fields given
PricedRoom(price_amount, price) ==
    [isdict |-> TRUE, name |-> JStr(<<"K">>), gallery |-> JNoList, images |-> JNoList,
     price_amount |-> price_amount, price |-> price]

ListA == JList(<<JStr(IMG_A)>>)
ListAB == JList(<<JStr(IMG_A), JStr(IMG_B)>>)

CsvRoomLists ==
    {<<>>,
     <<NamedRoom(JNoList)>>,
     <<NamedRoom(ListA)>>,
     <<NamedRoom(ListA), NamedRoom(ListAB)>>,
     <<NamelessRoom(ListA), NamedRoom(JNoList)>>,
     <<NamedRoom(JNoList), NamedRoom(JNoList)>>}

CsvRoomCols == {BlankCol, BadCol} \cup {JsonCol(JList(l)) : l \in CsvRoomLists}

CsvGalleryCols == {BlankCol, JsonCol(ListA), JsonCol(ListAB)}

\* rows that differ in what the id is made of
IdRows ==
    {[url |-> u, title |-> t, description |-> d, gallery |-> BlankCol, rooms |-> BlankCol,
      unnamed |-> BlankCol, facilities |-> BlankCol, rating |-> JNull,
      search_pricing |-> BlankCol] :
        u \in {JNull, JStr(<<"u">>), JStr(<<SPACE, "u">>), JStr(<<"v">>)},
        t \in {JNull, JStr(<<"t">>), JStr(<<"u">>)},
        d \in {JNull, JStr(<<"d">>)}}

\* rows that differ in their images and rooms
RoomRows ==
    {[url |-> JStr(<<"u">>), title |-> JStr(<<"t">>), description |-> JNull,
      gallery |-> g, rooms |-> r, unnamed |-> BlankCol, facilities |-> BlankCol,
      rating |-> JNull, search_pricing |-> BlankCol] :
        g \in CsvGalleryCols, r \in CsvRoomCols}

\* rows whose rooms are in the column without a header
UnnamedRows ==
    {[url |-> JStr(<<"u">>), title |-> JStr(<<"t">>), description |-> JNull,
      gallery |-> g, rooms |-> r, unnamed |-> JsonCol(JList(<<NamedRoom(ListAB)>>)),
      facilities |-> BlankCol, rating |-> JNull, search_pricing |-> BlankCol] :
        g \in CsvGalleryCols, r \in {BlankCol, BadCol}}

\* a row with a url and a title and nothing else
BaseRow ==
    [url |-> JStr(<<"u">>), title |-> JStr(<<"t">>), description |-> JNull,
     gallery |-> BlankCol, rooms |-> BlankCol, unnamed |-> BlankCol,
     facilities |-> BlankCol, rating |-> JNull, search_pricing |-> BlankCol]

\* rows that differ in their facilities: ["Wifi", "See all 42 facilities",
\* " Pool "], ["SEE ALL X", "  see all", "Spa"], [" ", null, "Oversee all",
\* "see", 7], [] and ["Wifi"]
FacilityRows ==
    LET wifi == <<"W", "i", "f", "i">>
        lists ==
            {<<JStr(wifi),
               JStr(<<"S", "e", "e", SPACE, "a", "l", "l", SPACE, "4", "2", SPACE,
                      "f", "a", "c", "i", "l", "i", "t", "i", "e", "s">>),
               JStr(<<SPACE, "P", "o", "o", "l", SPACE>>)>>,
             <<JStr(<<"S", "E", "E", SPACE, "A", "L", "L", SPACE, "X">>),
               JStr(<<SPACE, SPACE, "s", "e", "e", SPACE, "a", "l", "l">>),
               JStr(<<"S", "p", "a">>)>>,
             <<JStr(<<SPACE>>), JNull,
               JStr(<<"O", "v", "e", "r", "s", "e", "e", SPACE, "a", "l", "l">>),
               JStr(<<"s", "e", "e">>), JNum(<<"7">>)>>,
             <<>>,
             <<JStr(wifi)>>}
    IN {[BaseRow EXCEPT !.facilities = JsonCol(JList(f))] : f \in lists}

\* rows whose gallery, or whose other JSON columns, hold unparsable text or
\* a JSON value that is not a list: 5, 0, true, "ab", {"k": 1}; the rooms of
\* the first kind are one room without images
ShapeRows ==
    LET shapes ==
            {JValue("num", <<"5">>), JValue("num", <<"0">>), JValue("bool", <<"true">>),
             JValue("str", <<"a", "b">>),
             JValue("object", <<<<<<"k">>, JNum(<<"1">>)>>>>)}
        cols == {JsonCol(v) : v \in shapes} \cup {BadCol}
    IN {[BaseRow EXCEPT !.gallery = g, !.rooms = JsonCol(JList(<<NamedRoom(JNoList)>>))] :
            g \in cols}
       \cup {[BaseRow EXCEPT !.facilities = c, !.rooms = c, !.search_pricing = c] :
            c \in cols}

\* rows that differ in what the price is made of: the search prices
\* "120.5", 0, "abc", -5 and none, with rooms priced "abc"; 0 or 10.004,
\* then " 80 " or 90; -5, then 99.99
PriceRows ==
    LET SearchPricing(v) == JsonCol(JValue("object", <<<<CURRENT_PRICE_AMOUNT, v>>>>))
        search_pricing_cols ==
            {BlankCol, SearchPricing(JStr(<<"1", "2", "0", ".", "5">>)),
             SearchPricing(JNum(<<"0">>)), SearchPricing(JStr(<<"a", "b", "c">>)),
             SearchPricing(JNum(<<"-", "5">>))}
        room_lists ==
            {<<PricedRoom(JNull, JStr(<<"a", "b", "c">>))>>,
             <<PricedRoom(JNum(<<"0">>), JNum(<<"1", "0", ".", "0", "0", "4">>)),
               PricedRoom(JStr(<<SPACE, "8", "0", SPACE>>), JNum(<<"9", "0">>))>>,
             <<PricedRoom(JNum(<<"-", "5">>), JNull),
               PricedRoom(JNull, JNum(<<"9", "9", ".", "9", "9">>))>>}
    IN {[BaseRow EXCEPT !.search_pricing = p, !.rooms = JsonCol(JList(r))] :
            p \in search_pricing_cols, r \in room_lists}

\* the ratings "8.6", " 9 ", "abc", "0" and "", without and with a facility
RatingRows ==
    {[BaseRow EXCEPT !.rating = JStr(x)] :
        x \in {<<"8", ".", "6">>, <<SPACE, "9", SPACE>>, <<"a", "b", "c">>, <<"0">>, <<>>}}
    \cup {[BaseRow EXCEPT !.rating = JStr(x),
                        !.facilities = JsonCol(JList(<<JStr(<<"W", "i", "f", "i">>)>>))] :
        x \in {<<"8", ".", "6">>, <<"a", "b", "c">>}}

CsvRows ==
    IdRows \cup RoomRows \cup UnnamedRows \cup FacilityRows \cup ShapeRows
    \cup PriceRows \cup RatingRows

\* ------------------------------ sanitize_hotels_from_csv as a state machine
RoomsIdle ==
    /\ rpc = "idle"
    /\ rooms_is_list = FALSE
    /\ hotel_gallery = <<>>
    /\ rooms = <<>>
    /\ item = NonDictItem
    /\ n_items = 0

Init ==
    /\ csv_rows = <<>>
    /\ sanitized = <<>>
    /\ csv_error = "none"
    /\ used_images = {}
    /\ RoomsIdle
    /\ PriceIdle
    /\ ScrapeIdle
    /\ DeriveIdle
    /\ CollectIdle

\* one iteration of the loop of lines 274-343: the record of the row is
\* appended, or the exception of line 290 ends the call
SanitizeNextRow(row) ==
    /\ csv_error = "none"
    /\ Len(csv_rows) < MaxRows
    /\ csv_rows' = Append(csv_rows, row)
    /\ LET r == SanitizeRow(row, used_images)
       IN IF r.raises
          THEN /\ csv_error' = "TypeError"
               /\ UNCHANGED <<sanitized, used_images>>
          ELSE /\ sanitized' = Append(sanitized, r.entry)
               /\ used_images' = r.used
               /\ UNCHANGED csv_error
    /\ UNCHANGED <<roomsVars, priceVars, scrapeVars, deriveVars, collectVars>>

Next == \E row \in CsvRows : SanitizeNextRow(row)

Spec == Init /\ [][Next]_vars

\* ------------------------------ price parsing, src/extractor.py (117-179)
\* the classes of PRICE_COMPONENT_PATTERN: [^\d\s] and [\d.,]
IsCurrencyChar(c) == ~IsDigit(c) /\ ~IsSpace(c)
IsAmountChar(c) == IsDigit(c) \/ c \in {",", "."}

\* str.replace(a, b) for a one-character a
RECURSIVE Replace(_, _, _)
Replace(s, a, b) ==
    IF s = <<>> THEN <<>>
    ELSE (IF Head(s) = a THEN b ELSE <<Head(s)>>) \o Replace(Tail(s), a, b)

\* str.rfind(c) counted from 1: 0 when c does not occur
RFind(s, c) ==
    IF \E i \in 1..Len(s) : s[i] = c
    THEN CHOOSE i \in 1..Len(s) : s[i] = c /\ \A j \in (i + 1)..Len(s) : s[j] # c
    ELSE 0

\* the length of the longest run, starting at i, of positions that are in
\* the set given (the positions of the characters of one class)
RunLen(s, i, positions) ==
    LET stop == CHOOSE j \in i..(Len(s) + 1) :
                    /\ j \notin positions
                    /\ \A m \in i..(j - 1) : m \in positions
    IN stop - i

SpacePositions(s) == {j \in 1..Len(s) : IsSpace(s[j])}
CurrencyPositions(s) == {j \in 1..Len(s) : IsCurrencyChar(s[j])}
AmountPositions(s) == {j \in 1..Len(s) : IsAmountChar(s[j])}

\* where the amount starts when the currency is the k characters from i
AmountStart(s, i, k) == i + k + RunLen(s, i + k, SpacePositions(s))

\* the lengths k of a currency at i that an amount follows
CurrencyLengths(s, i) ==
    {k \in 1..RunLen(s, i, CurrencyPositions(s)) :
        AmountStart(s, i, k) <= Len(s) /\ IsAmountChar(s[AmountStart(s, i, k)])}

\* PRICE_COMPONENT_PATTERN.search: the leftmost match, each group greedy
NoMatch == [found |-> FALSE, currency |-> <<>>, amount |-> <<>>]

PatternSearch(s) ==
    LET starts == {i \in 1..Len(s) : CurrencyLengths(s, i) # {}}
    IN IF starts = {} THEN NoMatch
       ELSE LET i == CHOOSE x \in starts : \A y \in starts : x <= y
                k == CHOOSE x \in CurrencyLengths(s, i) :
                        \A y \in CurrencyLengths(s, i) : y <= x
                a == AmountStart(s, i, k)
            IN [found |-> TRUE,
                currency |-> SubSeq(s, i, i + k - 1),
                amount |-> SubSeq(s, a, a + RunLen(s, a, AmountPositions(s)) - 1)]

\* variant: the empty string is returned as it is
OrNoneKeep(x) == JStr(x)

\* x or None for a string x
OrNone(x) == IF x = <<>> THEN JNull ELSE JStr(x)

RECURSIVE DropLeadingZeros(_)
DropLeadingZeros(s) ==
    IF Len(s) > 1 /\ Head(s) = "0" THEN DropLeadingZeros(Tail(s)) ELSE s

RECURSIVE DropTrailingZeros(_)
DropTrailingZeros(s) ==
    IF Len(s) > 1 /\ s[Len(s)] = "0"
    THEN DropTrailingZeros(SubSeq(s, 1, Len(s) - 1)) ELSE s

\* variant: the dots after the first one are ignored
PyFloatLenient(s) ==
    LET digits == {i \in 1..Len(s) : IsDigit(s[i])}
        dots == {i \in 1..Len(s) : s[i] = "."}
        dot == IF dots = {} THEN Len(s) + 1
               ELSE CHOOSE i \in dots : \A j \in dots : i <= j
        IsDigitChar(c) == IsDigit(c)
        whole == SelectSeq(SubSeq(s, 1, dot - 1), IsDigitChar)
        fraction == SelectSeq(SubSeq(s, dot + 1, Len(s)), IsDigitChar)
    IN IF digits # {} /\ dots \cup digits = 1..Len(s)
       THEN JNum(DropLeadingZeros(IF whole = <<>> THEN <<"0">> ELSE whole)
                 \o <<".">>
                 \o DropTrailingZeros(IF fraction = <<>> THEN <<"0">> ELSE fraction))
       ELSE JNull

\* float(s) for a text of digits and dots: the number, written as Python
\* prints it ("1234.56", "1234.0"), or None where float raises ValueError
PyFloat(s) ==
    LET dots == {i \in 1..Len(s) : s[i] = "."}
        digits == {i \in 1..Len(s) : IsDigit(s[i])}
        dot == IF dots = {} THEN Len(s) + 1 ELSE CHOOSE i \in dots : TRUE
        whole == SubSeq(s, 1, dot - 1)
        fraction == SubSeq(s, dot + 1, Len(s))
    IN IF Cardinality(dots) <= 1 /\ digits # {} /\ dots \cup digits = 1..Len(s)
       THEN JNum(DropLeadingZeros(IF whole = <<>> THEN <<"0">> ELSE whole)
                 \o <<".">>
                 \o DropTrailingZeros(IF fraction = <<>> THEN <<"0">> ELSE fraction))
       ELSE JNull

NoSep == <<>>

\* variant: up to three digits after the separator make it the decimal one
IsShortFractionUpTo3(fractional) ==
    /\ fractional # <<>>
    /\ Len(fractional) <= 3
    /\ \A i \in 1..Len(fractional) : IsDigit(fractional[i])

\* lines 142 and 148: fractional.isdigit() and 0 < len(fractional) <= 2
IsShortFraction(fractional) ==
    /\ fractional # <<>>
    /\ Len(fractional) <= 2
    /\ \A i \in 1..Len(fractional) : IsDigit(fractional[i])

\* variant: with both separators present the earlier one is the decimal one
SeparatorsEarlierWins(cleaned) ==
    LET last_comma == RFind(cleaned, ",")
        last_dot == RFind(cleaned, ".")
    IN IF last_comma # 0 /\ last_dot # 0
       THEN IF last_comma < last_dot
            THEN [decimal_sep |-> <<",">>, thousands_sep |-> <<".">>]
            ELSE [decimal_sep |-> <<".">>, thousands_sep |-> <<",">>]
       ELSE IF last_comma # 0
       THEN IF IsShortFraction(SubSeq(cleaned, last_comma + 1, Len(cleaned)))
            THEN [decimal_sep |-> <<",">>, thousands_sep |-> NoSep]
            ELSE [decimal_sep |-> NoSep, thousands_sep |-> <<",">>]
       ELSE IF last_dot # 0
       THEN IF IsShortFraction(SubSeq(cleaned, last_dot + 1, Len(cleaned)))
            THEN [decimal_sep |-> <<".">>, thousands_sep |-> NoSep]
            ELSE [decimal_sep |-> NoSep, thousands_sep |-> <<".">>]
       ELSE [decimal_sep |-> NoSep, thousands_sep |-> NoSep]

\* lines 127-151: the decimal and the thousands separator of the token
Separators(cleaned) ==
    LET last_comma == RFind(cleaned, ",")
        last_dot == RFind(cleaned, ".")
    IN IF last_comma # 0 /\ last_dot # 0
       THEN IF last_comma > last_dot
            THEN [decimal_sep |-> <<",">>, thousands_sep |-> <<".">>]
            ELSE [decimal_sep |-> <<".">>, thousands_sep |-> <<",">>]
       ELSE IF last_comma # 0
       THEN IF IsShortFraction(SubSeq(cleaned, last_comma + 1, Len(cleaned)))
            THEN [decimal_sep |-> <<",">>, thousands_sep |-> NoSep]
            ELSE [decimal_sep |-> NoSep, thousands_sep |-> <<",">>]
       ELSE IF last_dot # 0
       THEN IF IsShortFraction(SubSeq(cleaned, last_dot + 1, Len(cleaned)))
            THEN [decimal_sep |-> <<".">>, thousands_sep |-> NoSep]
            ELSE [decimal_sep |-> NoSep, thousands_sep |-> <<".">>]
       ELSE [decimal_sep |-> NoSep, thousands_sep |-> NoSep]

\* lines 120-164
ToFloat(amount_text) ==
    LET stripped == Strip(Replace(amount_text, NBSP, <<>>))
        cleaned == Replace(stripped, SPACE, <<>>)
        sep == Separators(cleaned)
        no_thousands ==
            IF sep.thousands_sep # NoSep
            THEN Replace(cleaned, sep.thousands_sep[1], <<>>)
            ELSE cleaned
        numeral ==
            IF sep.decimal_sep # NoSep /\ sep.decimal_sep # <<".">>
            THEN Replace(no_thousands, sep.decimal_sep[1], <<".">>)
            ELSE IF sep.decimal_sep = NoSep
            THEN Replace(Replace(no_thousands, ",", <<>>), ".", <<>>)
            ELSE no_thousands
    IN IF stripped = <<>> THEN JNull ELSE PyFloat(numeral)

\* variant: the amount text is dropped when it has no value
SplitPriceComponentsDropText(t) ==
    IF t.t # "str" \/ t.s = <<>>
    THEN NoParsed
    ELSE LET cleaned == Strip(Replace(t.s, NBSP, <<SPACE>>))
             match == PatternSearch(cleaned)
             amount_text == OrNone(Strip(match.amount))
             amount_value == IF amount_text.t = "str"
                             THEN ToFloat(amount_text.s) ELSE JNull
         IN IF ~match.found
            THEN [currency |-> JNull, amount_text |-> OrNone(cleaned), amount_value |-> JNull]
            ELSE [currency |-> OrNone(Strip(match.currency)),
                  amount_text |-> IF amount_value = JNull THEN JNull ELSE amount_text,
                  amount_value |-> amount_value]

\* lines 167-179
SplitPriceComponents(t) ==
    IF t.t # "str" \/ t.s = <<>>
    THEN NoParsed
    ELSE LET cleaned == Strip(Replace(t.s, NBSP, <<SPACE>>))
             match == PatternSearch(cleaned)
             amount_text == OrNone(Strip(match.amount))
         IN IF ~match.found
            THEN [currency |-> JNull, amount_text |-> OrNone(cleaned), amount_value |-> JNull]
            ELSE [currency |-> OrNone(Strip(match.currency)),
                  amount_text |-> amount_text,
                  amount_value |-> IF amount_text.t = "str"
                                   THEN ToFloat(amount_text.s) ELSE JNull]

\* ------------------------------------------------------- the price texts
PriceChars == {"$", "1", ",", ".", SPACE, NBSP}

TokenChars == {"1", ",", "."}

USD_1_234_56 == <<"$", "1", ",", "2", "3", "4", ".", "5", "6">>
EUR_1_234_56 == <<EURO, "1", ".", "2", "3", "4", ",", "5", "6">>
PLAIN_1234 == <<"1", "2", "3", "4">>
USD_1_23 == <<"$", "1", ",", "2", "3">>
USD_1_234 == <<"$", "1", ",", "2", "3", "4">>
USD_1_234_567 == <<"$", "1", ".", "2", "3", "4", ".", "5", "6", "7">>

\* the texts above, "$1,2,3", "1,234 USD" and "12 $5"
SampleTexts ==
    {USD_1_234_56, EUR_1_234_56, PLAIN_1234, USD_1_23, USD_1_234, USD_1_234_567,
     <<"$", "1", ",", "2", ",", "3">>,
     <<"1", ",", "2", "3", "4", SPACE, "U", "S", "D">>,
     <<"1", "2", SPACE, "$", "5">>}

PriceTexts ==
    {JNull}
    \cup {JStr(s) : s \in SeqsUpTo(PriceChars, MaxTextLen)}
    \cup {JStr(c \o tok) : c \in {<<"$">>, <<EURO, SPACE>>}, tok \in SeqsUpTo(TokenChars, MaxTokenLen)}
    \cup {JStr(s) : s \in SampleTexts}

\* ------------------------------ _split_price_components as a state machine
PriceInit ==
    /\ ppc = "call"
    /\ text \in PriceTexts
    /\ parsed = NoParsed
    /\ used_images = {}
    /\ RoomsIdle
    /\ CsvIdle
    /\ ScrapeIdle
    /\ DeriveIdle
    /\ CollectIdle

SplitPrice ==
    /\ ppc = "call"
    /\ parsed' = SplitPriceComponents(text)
    /\ ppc' = "ret"
    /\ UNCHANGED <<text, used_images, roomsVars, csvVars, scrapeVars, deriveVars, collectVars>>

PriceNext == SplitPrice

PriceSpec == PriceInit /\ [][PriceNext]_vars

(***************************************************************************)
(* src/dubai_sc.py: the HTML cache, extract_hotel_details and the batch    *)
(* loop of main.  A hotel URL is a record [country, slug]: the cache file  *)
(* name is made of the last path part only, so two URLs with the same slug *)
(* share one cache file.  The page a download returns is identified by the *)
(* URL it was downloaded from; it is never the empty string, and reading   *)
(* and writing files succeed.                                              *)
(***************************************************************************)
MaxTarget == 21     \* largest max_hotels explored

MaxIrregular == 1   \* most entries that are not a new hotel URL

MaxEntries == MaxTarget + MaxIrregular

NoHtml == NoUrl

\* the URL collected for the i-th entry of all_hotel_entries
U(i) == [country |-> "ae", slug |-> i]

\* another URL whose last path part equals that of U(i)
V(i) == [country |-> "sa", slug |-> i]

Urls == {U(i) : i \in 1..(MaxEntries + 1)} \cup {V(1)}

Slugs == {u.slug : u \in Urls}

GetCachedHtmlPath(url) == url.slug

LoadHtmlFromCacheMiss(cache, url) == NoHtml

LoadHtmlFromCache(cache, url) == cache[GetCachedHtmlPath(url)]

SaveHtmlToCache(cache, url, html) ==
    [cache EXCEPT ![GetCachedHtmlPath(url)] = html]

\* variant: the rooms are found in a cached page as well
ExtractHotelDetailsRoomsFromCache(cache, e, caching) ==
    LET cached == IF caching THEN LoadHtmlFromCache(cache, e.url) ELSE NoHtml
        used_cached_html == cached # NoHtml
        page_source == IF used_cached_html THEN cached ELSE e.url
    IN [page_source |-> page_source,
        used_cached_html |-> used_cached_html,
        downloaded |-> ~used_cached_html,
        cache |-> IF ~used_cached_html /\ caching
                  THEN SaveHtmlToCache(cache, e.url, page_source)
                  ELSE cache,
        rooms |-> e.has_rooms]

\* extract_hotel_details: the page used, whether it came from the cache,
\* whether driver.get ran, the cache afterwards and whether rooms were found.
\* Rooms need the live driver: a page taken from the cache yields none.
ExtractHotelDetails(cache, e, caching) ==
    LET cached == IF caching THEN LoadHtmlFromCache(cache, e.url) ELSE NoHtml
        used_cached_html == cached # NoHtml
        page_source == IF used_cached_html THEN cached ELSE e.url
    IN [page_source |-> page_source,
        used_cached_html |-> used_cached_html,
        downloaded |-> ~used_cached_html,
        cache |-> IF ~used_cached_html /\ caching
                  THEN SaveHtmlToCache(cache, e.url, page_source)
                  ELSE cache,
        rooms |-> ~used_cached_html /\ e.has_rooms]

BatchSize == 10

\* list(range(batch_size, total_target + batch_size, batch_size))
BatchThresholds(target) ==
    [i \in 1..((target + BatchSize - 1) \div BatchSize) |-> BatchSize * i]

WriteHotelsToCsvTruncate(file, data, append) ==
    IF data = <<>> THEN file ELSE data

WriteHotelsToCsv(file, data, append) ==
    IF data = <<>> THEN file
    ELSE IF append THEN file \o data
    ELSE data

\* a row or a backup left behind by an earlier run
StaleRow == [url |-> NoUrl]

\* the keys extract_hotel_details always returns for a hotel that has rooms
DetailKeys ==
    {"url", "title", "description", "gallery", "facilities", "latitude",
     "longitude", "city", "location", "reviews_count", "rating", "rooms"}

\* the keys a hotel of hotel_data has: search_pricing only when its entry
\* carried a non-empty price dict
HotelKeys(hotel) == DetailKeys \cup (IF hotel.priced THEN {"search_pricing"} ELSE {})

\* the key names in ascending string order
KeyOrder ==
    <<"city", "description", "facilities", "gallery", "latitude", "location",
      "longitude", "rating", "reviews_count", "rooms", "search_pricing",
      "title", "url">>

IsFieldOf(data, key) == \E k \in 1..Len(data) : key \in HotelKeys(data[k])

\* sorted({key for entry in hotel_data for key in entry.keys()})
Fieldnames(data) ==
    LET F[n \in 0..Len(KeyOrder)] ==
            IF n = 0 THEN <<>>
            ELSE IF IsFieldOf(data, KeyOrder[n])
                 THEN Append(F[n - 1], KeyOrder[n])
                 ELSE F[n - 1]
    IN F[Len(KeyOrder)]

\* the columns write_hotels_to_csv leaves in the file: the header line is
\* written in "w" mode only, each row has one cell per field of its own call
WriteCsvFields(fields, data, append) ==
    IF data = <<>> THEN fields
    ELSE LET fieldnames == Fieldnames(data)
             written == [k \in 1..Len(data) |-> fieldnames]
         IN IF append
            THEN [header |-> fields.header, rows |-> fields.rows \o written]
            ELSE [header |-> fieldnames, rows |-> written]

\* the columns of a file left behind by an earlier run
StaleFields == [header |-> Fieldnames(<<[priced |-> FALSE]>>),
                rows |-> <<Fieldnames(<<[priced |-> FALSE]>>)>>]

\* the entries collect_hotel_links_for_city can hand to the loop at position i
EntriesAt(i) ==
    {[valid |-> TRUE, url |-> U(i), has_rooms |-> TRUE, priced |-> TRUE]}
    \cup {[valid |-> FALSE, url |-> NoUrl, has_rooms |-> FALSE, priced |-> FALSE]}
    \cup {[valid |-> TRUE, url |-> U(i), has_rooms |-> FALSE, priced |-> TRUE]}
    \cup {[valid |-> TRUE, url |-> U(i), has_rooms |-> TRUE, priced |-> FALSE]}
    \cup (IF i > 1
          THEN [valid : {TRUE}, url : {U(1), V(1)}, has_rooms : BOOLEAN,
                priced : {TRUE}]
          ELSE {})

IsNewHotel(e, i) == e.valid /\ e.url = U(i) /\ e.has_rooms /\ e.priced

\* entries consumed so far that were not a new, priced hotel URL with rooms
Irregular ==
    n_entries - Cardinality({k \in 1..Len(hotel_data) :
                                hotel_data[k].url.country = "ae"
                                /\ hotel_data[k].url.slug > 1
                                /\ hotel_data[k].priced})
              - (IF Len(hotel_data) > 0 /\ hotel_data[1].url = U(1)
                    /\ hotel_data[1].priced
                 THEN 1 ELSE 0)

MainInit ==
    /\ mpc = "loop"
    /\ use_cache \in BOOLEAN
    /\ html_cache \in {[s \in Slugs |-> NoHtml]}
                      \cup (IF use_cache
                            THEN {[s \in Slugs |-> IF s = 1 THEN U(1) ELSE NoHtml],
                                  [s \in Slugs |-> U(s)]}
                            ELSE {})
    /\ downloads = [u \in Urls |-> 0]
    /\ total_target \in 0..MaxTarget
    /\ entry = NoEntry
    /\ n_entries = 0
    /\ hotel_data = <<>>
    /\ current_batch_data = <<>>
    /\ skipped_count = 0
    /\ current_batch_num = 0
    /\ next_batch_threshold =
          (IF BatchThresholds(total_target) # <<>>
           THEN BatchThresholds(total_target)[1] ELSE total_target)
    /\ csv_file \in {<<>>, <<StaleRow>>}
    /\ csv_fields = (IF csv_file = <<>> THEN NoFields ELSE StaleFields)
    /\ json_file = csv_file
    /\ used_images = {}
    /\ RoomsIdle
    /\ CsvIdle
    /\ PriceIdle
    /\ DeriveIdle
    /\ CollectIdle

\* one iteration of the loop over all_hotel_entries
MainNextEntry(e) ==
    /\ mpc = "loop"
    /\ n_entries < MaxEntries
    /\ Len(hotel_data) < total_target
    /\ IsNewHotel(e, n_entries + 1) \/ Irregular < MaxIrregular
    /\ entry' = e
    /\ n_entries' = n_entries + 1
    /\ IF ~e.valid
       THEN /\ skipped_count' = skipped_count + 1
            /\ UNCHANGED <<html_cache, downloads, hotel_data, current_batch_data,
                           current_batch_num, next_batch_threshold, csv_file,
                           csv_fields, json_file>>
       ELSE LET details == ExtractHotelDetails(html_cache, e, use_cache)
                hotel == [url |-> e.url, priced |-> e.priced]
                data == Append(hotel_data, hotel)
                batch == Append(current_batch_data, hotel)
            IN /\ html_cache' = details.cache
               /\ downloads' = IF details.downloaded
                               THEN [downloads EXCEPT ![e.url] = @ + 1]
                               ELSE downloads
               /\ IF ~details.rooms
                  THEN /\ skipped_count' = skipped_count + 1
                       /\ UNCHANGED <<hotel_data, current_batch_data,
                                      current_batch_num, next_batch_threshold,
                                      csv_file, csv_fields, json_file>>
                  ELSE /\ hotel_data' = data
                       /\ UNCHANGED skipped_count
                       /\ IF Len(data) >= next_batch_threshold
                          THEN /\ current_batch_num' = current_batch_num + 1
                               /\ csv_file' = WriteHotelsToCsv(csv_file, batch,
                                                  current_batch_num + 1 # 1)
                               /\ csv_fields' = WriteCsvFields(csv_fields, batch,
                                                    current_batch_num + 1 # 1)
                               /\ json_file' = data
                               /\ current_batch_data' = <<>>
                               /\ next_batch_threshold' =
                                     IF current_batch_num + 1
                                           < Len(BatchThresholds(total_target))
                                     THEN BatchThresholds(total_target)
                                              [current_batch_num + 2]
                                     ELSE next_batch_threshold
                          ELSE /\ current_batch_data' = batch
                               /\ UNCHANGED <<current_batch_num,
                                              next_batch_threshold, csv_file,
                                              csv_fields, json_file>>
    /\ UNCHANGED <<mpc, use_cache, total_target, used_images, roomsVars, csvVars,
                   priceVars, deriveVars, collectVars>>

\* the loop ends (target reached or entries exhausted); the remainder is saved
MainFinish ==
    /\ mpc = "loop"
    /\ mpc' = "done"
    /\ IF current_batch_data # <<>>
       THEN /\ current_batch_num' = current_batch_num + 1
            /\ csv_file' = WriteHotelsToCsv(csv_file, current_batch_data,
                               current_batch_num + 1 # 1)
            /\ csv_fields' = WriteCsvFields(csv_fields, current_batch_data,
                                 current_batch_num + 1 # 1)
            /\ json_file' = hotel_data
       ELSE UNCHANGED <<current_batch_num, csv_file, csv_fields, json_file>>
    /\ UNCHANGED <<use_cache, html_cache, downloads, total_target, entry,
                   n_entries, hotel_data, current_batch_data,
                   next_batch_threshold, skipped_count, used_images, roomsVars,
                   csvVars, priceVars, deriveVars, collectVars>>

MainNext ==
    \/ \E e \in EntriesAt(n_entries + 1) : MainNextEntry(e)
    \/ MainFinish

MainSpec == MainInit /\ [][MainNext]_vars

(***************************************************************************)
(* src/sanitize_hotels.py: single calls of the quantity scan of            *)
(* _parse_rooms and of the category inference.                             *)
(***************************************************************************)
MaxOptions == 2     \* longest availability list explored

\* a key that the option does not have
Absent == [t |-> "absent", s |-> <<>>]

\* str(x) of a JSON scalar
PyStr(x) == IF x.t = "null" THEN <<"N", "o", "n", "e">> ELSE x.s

\* re.search(r"(\d+)", c).group(1): the first run of digits of c, "" without
FirstDigits(c) ==
    LET digits == {i \in 1..Len(c) : IsDigit(c[i])}
        first == CHOOSE i \in digits : \A j \in digits : i <= j
        ends == {k \in first..Len(c) : \A j \in first..k : IsDigit(c[j])}
    IN IF digits = {} THEN <<>>
       ELSE SubSeq(c, first, CHOOSE k \in ends : \A j \in ends : j <= k)

\* lines 178-195: the largest of 1 and the first integers of the value and
\* the label of every option; 1 when availability is no list
RoomQuantity(availability) ==
    IF availability.t = "list"
    THEN LET opts == {availability.v[i] : i \in 1..Len(availability.v)}
             candidates ==
                 UNION {{PyStr(f) : f \in {o.value, o.label} \ {Absent}} :
                            o \in {o \in opts : o.isdict}}
             found == {DigitsValue(FirstDigits(c)) :
                          c \in {c \in candidates : FirstDigits(c) # <<>>}}
                      \cup {1}
         IN CHOOSE m \in found : \A n \in found : n <= m
    ELSE 1

\* sub in s
Contains(s, sub) ==
    \E i \in 1..(Len(s) - Len(sub) + 1) : SubSeq(s, i, i + Len(sub) - 1) = sub

\* lines 95-105
DeriveCategoryFromTitle(title) ==
    LET lowered == Lower(title)
    IN IF \/ Contains(lowered, <<"a", "p", "a", "r", "t", "m", "e", "n", "t">>)
          \/ Contains(lowered, <<"s", "u", "i", "t", "e">>)
          \/ Contains(lowered, <<"s", "t", "u", "d", "i", "o">>)
       THEN "Apartment"
       ELSE IF \/ Contains(lowered, <<"g", "u", "e", "s", "t", SPACE, "h", "o", "u", "s", "e">>)
               \/ Contains(lowered, <<"g", "u", "e", "s", "t", "h", "o", "u", "s", "e">>)
       THEN "Guesthouse"
       ELSE IF Contains(lowered, <<"h", "o", "s", "t", "e", "l">>) THEN "Hostel"
       ELSE IF Contains(lowered, <<"r", "e", "s", "o", "r", "t">>) THEN "Resort"
       ELSE "Hotel"

\* line 308: _derive_category_from_title(title or description)
HotelCategory(title, description) ==
    DeriveCategoryFromTitle(IF title # <<>> THEN title ELSE description)

\* the availability lists of a raw room: no list, or up to MaxOptions
\* options that are no dict or have, or lack, a value ("0", 4, "2 of 5")
\* and a label (null, "12 left", "no")
Availabilities ==
    LET values == {Absent, JStr(<<"0">>), JNum(<<"4">>), JStr(<<"2", SPACE, "o", "f", SPACE, "5">>)}
        labels == {Absent, JNull, JStr(<<"1", "2", SPACE, "l", "e", "f", "t">>), JStr(<<"n", "o">>)}
        options == [isdict : {TRUE}, value : values, label : labels]
                   \cup {[isdict |-> FALSE, value |-> Absent, label |-> Absent]}
    IN {JNoList} \cup {JList(l) : l \in SeqsUpTo(options, MaxOptions)}

\* the stripped titles and descriptions of a row
TitlePairs ==
    LET titles == {<<>>, <<"P", "l", "a", "z", "a">>, <<"S", "e", "a", SPACE, "R", "e", "s", "o", "r", "t">>, <<"R", "e", "s", "o", "r", "t", SPACE, "S", "u", "i", "t", "e", "s">>, <<"G", "u", "e", "s", "t", SPACE, "H", "o", "u", "s", "e">>,
                   <<"G", "u", "e", "s", "t", "h", "o", "u", "s", "e", SPACE, "H", "o", "s", "t", "e", "l">>, <<"C", "i", "t", "y", SPACE, "H", "o", "s", "t", "e", "l">>, <<"S", "T", "U", "D", "I", "O", SPACE, "5">>, <<"H", "o", "s", "t", "e", "l", SPACE, "R", "e", "s", "o", "r", "t">>}
        descriptions == {<<>>, <<"b", "e", "a", "c", "h", SPACE, "r", "e", "s", "o", "r", "t">>, <<"a", SPACE, "s", "t", "u", "d", "i", "o">>, <<"Q", "u", "i", "e", "t", SPACE, "H", "o", "s", "t", "e", "l">>}
    IN [title : titles, description : descriptions]

\* ------------------------------------------- add_room_services_to_data
MaxDataHotels == 2  \* most hotels in the data handed over

MaxSeed == 17       \* the states of the random generator explored

\* lines 19-49: 29 different names
DUMMY_ROOM_SERVICES ==
    <<"Toilet", "Bathtub or shower", "Towels", "Linens",
      "Socket near the bed", "Tile/Marble floor", "TV", "Heating",
      "Carpeted", "Cable channels", "Wake-up service",
      "Upper floors accessible by elevator",
      "Upper floors accessible by stairs only", "Clothes rack",
      "Toilet paper", "Board games/puzzles",
      "Single-room AC for guest accommodation", "Inner courtyard view",
      "Air conditioning", "Attached bathroom", "Flat-screen TV",
      "Soundproof", "Free Wifi", "Private bathroom", "Hair dryer",
      "Free toiletries", "Shampoo", "Toiletries", "Bathroom">>

\* the rooms of a sanitized hotel: the "service" list is missing, empty, or
\* holds what _parse_rooms took from the highlights
DataRooms ==
    LET missing == [name |-> "K", has_service |-> FALSE, service |-> <<>>]
        empty == [name |-> "Q", has_service |-> TRUE, service |-> <<>>]
        served == [name |-> "S", has_service |-> TRUE, service |-> <<"Balcony">>]
    IN {<<>>, <<missing>>, <<served>>, <<served, empty>>, <<empty, missing>>}

DataHotels == SeqsUpTo([title : {"t"}, rooms : DataRooms], MaxDataHotels)

\* random.sample(DUMMY_ROOM_SERVICES, k=random.randint(6, min(14, len(...))))
\* as the generator in state seed draws it for the room at position n:
\* between 6 and 14 entries from different places of the list
RandomSample(seed, n) ==
    LET size == Len(DUMMY_ROOM_SERVICES)
        count == 6 + ((seed + 5 * n) % ((IF size < 14 THEN size ELSE 14) - 5))
        start == (7 * seed + 11 * n) % size
        step == IF seed % 2 = 0 THEN 1 ELSE 7
    IN [i \in 1..count |-> DUMMY_ROOM_SERVICES[((start + (i - 1) * step) % size) + 1]]

\* variant: every room gets new services
AddRoomServicesToAll(data, seed) ==
    [h \in 1..Len(data) |->
        [data[h] EXCEPT !.rooms =
            [r \in 1..Len(data[h].rooms) |->
                [data[h].rooms[r] EXCEPT !.has_service = TRUE,
                                         !.service = RandomSample(seed, 2 * h + r)]]]]

\* lines 359-369: a room without "service", or with an empty one, gets a
\* random sample; every other room is left as it is
AddRoomServices(data, seed) ==
    [h \in 1..Len(data) |->
        [data[h] EXCEPT !.rooms =
            [r \in 1..Len(data[h].rooms) |->
                LET room == data[h].rooms[r]
                IN IF ~room.has_service \/ room.service = <<>>
                   THEN [room EXCEPT !.has_service = TRUE,
                                     !.service = RandomSample(seed, 2 * h + r)]
                   ELSE room]]]

DeriveInit ==
    /\ dpc = "call"
    /\ \/ /\ derive_fn = "quantity"
          /\ \E a \in Availabilities : derive_arg = [NoArg EXCEPT !.availability = a]
       \/ /\ derive_fn = "category"
          /\ \E t \in TitlePairs :
                derive_arg = [NoArg EXCEPT !.title = t.title,
                                           !.description = t.description]
       \/ /\ derive_fn = "services"
          /\ \E d \in DataHotels : derive_arg = [NoArg EXCEPT !.data = d]
    /\ derive_result = NoDerived
    /\ used_images = {}
    /\ RoomsIdle
    /\ CsvIdle
    /\ PriceIdle
    /\ ScrapeIdle
    /\ CollectIdle

\* the quantity of one raw room
InferQuantity ==
    /\ dpc = "call"
    /\ derive_fn = "quantity"
    /\ dpc' = "ret"
    /\ derive_result' = [derive_result EXCEPT
                            !.quantity = RoomQuantity(derive_arg.availability)]
    /\ UNCHANGED <<derive_fn, derive_arg, used_images, roomsVars, csvVars, priceVars,
                   scrapeVars, collectVars>>

\* the category of one row
InferCategory ==
    /\ dpc = "call"
    /\ derive_fn = "category"
    /\ dpc' = "ret"
    /\ derive_result' = [derive_result EXCEPT
                            !.category = HotelCategory(derive_arg.title,
                                                       derive_arg.description)]
    /\ UNCHANGED <<derive_fn, derive_arg, used_images, roomsVars, csvVars, priceVars,
                   scrapeVars, collectVars>>

\* add_room_services_to_data, lines 348-371
AddRoomServicesToData ==
    /\ dpc = "call"
    /\ derive_fn = "services"
    /\ dpc' = "ret"
    /\ \E seed \in 0..MaxSeed :
          derive_result' = [derive_result EXCEPT
                               !.data = AddRoomServices(derive_arg.data, seed)]
    /\ UNCHANGED <<derive_fn, derive_arg, used_images, roomsVars, csvVars, priceVars,
                   scrapeVars, collectVars>>

DeriveNext == InferQuantity \/ InferCategory \/ AddRoomServicesToData

DeriveSpec == DeriveInit /\ [][DeriveNext]_vars

(***************************************************************************)
(* src/dubai_sc.py: the scroll loop of collect_hotel_links.  A result link *)
(* is the record [absolute, path, query] of its href; the page gains links *)
(* only while the loop waits for them, and holds at most MaxPage links.    *)
(***************************************************************************)
MaxResults == 3     \* largest max_results explored

MaxPage == 3        \* most result links the page ever shows

MaxPaths == 2       \* different hotel paths among the links

MaxAdded == 1       \* most links a round adds to the page

\* anchor.get_attribute("href") gave nothing
NoHref == [absolute |-> FALSE, path |-> 0, query |-> ""]

\* the hrefs a result link can have: none, a hotel path with or without a
\* query string, and the first path written relative to the site
Hrefs ==
    {NoHref}
    \cup [absolute : {TRUE}, path : 1..MaxPaths, query : {"", "q"}]
    \cup {[absolute |-> FALSE, path |-> 1, query |-> ""]}

\* variant: the query string stays
StripQueryKeep(href) == href

\* href.split("?")[0]
StripQuery(href) == [href EXCEPT !.query = ""]

\* urljoin("https://www.booking.com", clean)
UrlJoin(clean) == [clean EXCEPT !.absolute = TRUE]

\* collect_from_elements: every new URL is appended, up to limit entries
RECURSIVE CollectFromElements(_, _, _, _)
CollectFromElements(elements, es, sn, limit) ==
    IF elements = <<>>
    THEN [entries |-> es, seen |-> sn]
    ELSE LET href == Head(elements)
             absolute == UrlJoin(StripQuery(href))
         IN IF href = NoHref \/ absolute \in sn
            THEN CollectFromElements(Tail(elements), es, sn, limit)
            ELSE IF Len(es) + 1 >= limit
            THEN [entries |-> Append(es, absolute), seen |-> sn \cup {absolute}]
            ELSE CollectFromElements(Tail(elements), Append(es, absolute),
                                     sn \cup {absolute}, limit)

CollectInit ==
    /\ cpc = "loop"
    /\ max_results \in 0..MaxResults
    /\ page \in SeqsUpTo(Hrefs, MaxAdded)
    /\ entries = <<>>
    /\ seen = {}
    /\ idle_rounds = 0
    /\ returned = <<>>
    /\ used_images = {}
    /\ RoomsIdle
    /\ CsvIdle
    /\ PriceIdle
    /\ ScrapeIdle
    /\ DeriveIdle

\* one round of the while loop: the links of the page are collected; then
\* either the loop is left with max_results entries, or the page is
\* scrolled and the wait sees new links (added) or times out
CollectRound(added) ==
    /\ cpc = "loop"
    /\ Len(entries) < max_results /\ idle_rounds < 3
    /\ Len(page) + Len(added) <= MaxPage
    /\ LET r == CollectFromElements(page, entries, seen, max_results)
       IN /\ entries' = r.entries
          /\ seen' = r.seen
          /\ IF Len(r.entries) >= max_results
             THEN /\ cpc' = "done"
                  /\ returned' = Take(r.entries, max_results)
                  /\ UNCHANGED <<page, idle_rounds>>
             ELSE /\ page' = page \o added
                  /\ idle_rounds' = IF added # <<>> THEN 0 ELSE idle_rounds + 1
                  /\ UNCHANGED <<cpc, returned>>
    /\ UNCHANGED <<max_results, used_images, roomsVars, csvVars, priceVars, scrapeVars,
                   deriveVars>>

\* the loop condition fails: return entries[:max_results]
CollectReturn ==
    /\ cpc = "loop"
    /\ ~(Len(entries) < max_results /\ idle_rounds < 3)
    /\ cpc' = "done"
    /\ returned' = Take(entries, max_results)
    /\ UNCHANGED <<max_results, page, entries, seen, idle_rounds, used_images,
                   roomsVars, csvVars, priceVars, scrapeVars, deriveVars>>

CollectNext ==
    \/ \E added \in SeqsUpTo(Hrefs, MaxAdded) : CollectRound(added)
    \/ CollectReturn

CollectSpec == CollectInit /\ [][CollectNext]_vars

\* the loop is a sequential program: it takes its next step
CollectFairSpec == CollectSpec /\ WF_vars(CollectNext)

\* ------------------------------------------------ claims on _parse_rooms
\* the URLs of the galleries of the rooms before position n
GalleriesBefore(n) == UNION {Range(rooms[i].gallery) : i \in 1..(n - 1)}

\* a name with at least one non-whitespace character
HasName(it) ==
    it.isdict /\ it.name.t = "str" /\ \E k \in 1..Len(it.name.s) : ~IsSpace(it.name.s[k])

\* the last item consumed was kept: the last room of rooms was made from it
LastItemKept == n_items >= 1 /\ HasName(item) /\ rooms # <<>>

\* the cleaned own images of the last item consumed
OwnImages == CleanImages(RoomImagesRaw(item))

\* C1: no image URL appears in the galleries of two different output rooms,
\* whether it came from a room's own list or from the hotel-level fallback.
C1_NoImageInTwoRooms ==
    \A i, j \in 1..Len(rooms) :
        i # j => Range(rooms[i].gallery) \cap Range(rooms[j].gallery) = {}

\* two rooms with images, the second of which listed an image the first took
C1_Witness ==
    /\ Len(rooms) = 2
    /\ LastItemKept
    /\ rooms[1].gallery # <<>>
    /\ rooms[2].gallery # <<>>
    /\ Range(OwnImages) \cap Range(rooms[1].gallery) # {}

\* C2: over all output rooms of a hotel every URL occurs at most once, also
\* inside one room's gallery when its raw list (or the hotel gallery) repeats
\* a URL.
C2_NoUrlRepeated ==
    \A i, j \in 1..Len(rooms) :
        \A k \in 1..Len(rooms[i].gallery), l \in 1..Len(rooms[j].gallery) :
            (i # j \/ k # l) => rooms[i].gallery[k] # rooms[j].gallery[l]

\* C3: a named room whose own images are none or all taken by earlier rooms
\* gets the first (up to 6) hotel images no earlier room took, in hotel
\* order; a room with an unused own image gets own unused images only.
C3_HotelFallback ==
    LastItemKept =>
        LET n == Len(rooms)
            earlier == GalleriesBefore(n)
            Free(x) == x \notin earlier
        IN IF Range(OwnImages) \subseteq earlier
           THEN rooms[n].gallery = Take(SelectSeq(hotel_gallery, Free), GalleryLimit)
           ELSE /\ rooms[n].gallery # <<>>
                /\ Range(rooms[n].gallery) \subseteq Range(OwnImages) \ earlier

\* the second room's own images were all taken by the first, which had also
\* taken a hotel image; the second room still gets a hotel image
C3_Witness ==
    /\ Len(rooms) = 2
    /\ LastItemKept
    /\ OwnImages # <<>>
    /\ Range(OwnImages) \subseteq Range(rooms[1].gallery)
    /\ Range(hotel_gallery) \cap Range(rooms[1].gallery) # {}
    /\ rooms[2].gallery # <<>>

\* C4: a raw entry whose name is missing, not a string, empty or
\* whitespace-only adds no room; every output room has a name with a
\* non-whitespace character.
C4_NamelessNeverInOutput ==
    /\ [](\A i \in 1..Len(rooms) :
            \E k \in 1..Len(rooms[i].name) : ~IsSpace(rooms[i].name[k]))
    /\ [][(n_items' = n_items + 1 /\ ~HasName(item')) => rooms' = rooms]_vars

\* a named entry was kept and the nameless entry after it was dropped
C4_Witness ==
    /\ n_items = 2
    /\ item.isdict
    /\ ~HasName(item)
    /\ Len(rooms) = 1

\* C5: image is gallery[0] when the gallery is non-empty and "" exactly when
\* it is empty; a room for which neither its own list nor the hotel has an
\* unused image left gets gallery [] and image "".
C5_ImageIsFirstOfGallery ==
    /\ \A i \in 1..Len(rooms) :
        /\ rooms[i].gallery # <<>> => rooms[i].image = rooms[i].gallery[1]
        /\ rooms[i].image = <<>> <=> rooms[i].gallery = <<>>
    /\ LastItemKept =>
        LET n == Len(rooms)
            earlier == GalleriesBefore(n)
        IN (Range(OwnImages) \cup Range(hotel_gallery)) \subseteq earlier
              => rooms[n].gallery = <<>> /\ rooms[n].image = <<>>

\* a room with several images, and a later room left without any although
\* it listed images and the hotel has a gallery
C5_Witness ==
    /\ Len(rooms) = 2
    /\ LastItemKept
    /\ Len(rooms[1].gallery) > 1
    /\ OwnImages # <<>>
    /\ hotel_gallery # <<>>
    /\ rooms[2].gallery = <<>>
    /\ rooms[2].image = <<>>

\* ------------------------------------ claims on sanitize_hotels_from_csv
\* the basis the claim names: the first non-empty of url, title, else the
\* JSON text of [title, description]
RowUrl(i) == Strip(CellText(csv_rows[i].url))
RowTitle(i) == Strip(CellText(csv_rows[i].title))
RowDescription(i) == Strip(CellText(csv_rows[i].description))

RowBasis(i) ==
    IF RowUrl(i) # <<>> THEN <<"url", RowUrl(i)>>
    ELSE IF RowTitle(i) # <<>> THEN <<"title", RowTitle(i)>>
    ELSE <<"json", RowTitle(i), RowDescription(i)>>

\* C6: the id depends on the basis only: equal (url, title, description)
\* give equal ids, equal non-empty urls give equal ids whatever the title
\* and description, and an id is 16 hexadecimal characters.
C6_IdDeterministic ==
    /\ \A i, j \in 1..Len(sanitized) :
        /\ RowBasis(i) = RowBasis(j) => sanitized[i].id = sanitized[j].id
        /\ (RowUrl(i) # <<>> /\ RowUrl(i) = RowUrl(j)) => sanitized[i].id = sanitized[j].id
        /\ (RowUrl(i) = RowUrl(j) /\ RowTitle(i) = RowTitle(j) /\ RowDescription(i) = RowDescription(j))
              => sanitized[i].id = sanitized[j].id
    /\ \A i \in 1..Len(sanitized) :
        /\ Len(sanitized[i].id) = 16
        /\ Range(sanitized[i].id) \subseteq Range(HexChars)

\* two rows with the same url and different titles and descriptions, and
\* a third basis that gives another id
C6_Witness ==
    /\ Len(sanitized) = 2
    /\ RowUrl(1) # <<>>
    /\ RowUrl(1) = RowUrl(2)
    /\ RowTitle(1) # RowTitle(2)
    /\ RowTitle(1) # <<>>
    /\ RowTitle(2) # <<>>
    /\ RowDescription(1) # RowDescription(2)
    /\ sanitized[1].id = sanitized[2].id

\* the URLs in the room galleries of the hotel at position i
HotelRoomImages(i) ==
    UNION {Range(sanitized[i].rooms[k].gallery) : k \in 1..Len(sanitized[i].rooms)}

\* C7: the used set starts empty for every hotel: rows with the same gallery
\* and rooms columns give the same rooms wherever they stand in the file,
\* and the used set holds images of the latest hotel only.
C7_UsedImagesPerHotel ==
    /\ \A i, j \in 1..Len(sanitized) :
        (/\ csv_rows[i].gallery = csv_rows[j].gallery
         /\ csv_rows[i].rooms = csv_rows[j].rooms
         /\ csv_rows[i].unnamed = csv_rows[j].unnamed)
            => sanitized[i].rooms = sanitized[j].rooms
    /\ sanitized # <<>> =>
        \/ used_images = HotelRoomImages(Len(sanitized))
        \/ sanitized[Len(sanitized)].rooms = <<>>

\* the second hotel assigns to a room an image the first hotel assigned too
C7_Witness ==
    /\ Len(sanitized) = 2
    /\ csv_rows[1] # csv_rows[2]
    /\ HotelRoomImages(1) \cap HotelRoomImages(2) # {}
    /\ used_images = HotelRoomImages(2)

\* ------------------------------------- claims on _split_price_components
\* the characters of s other than c
Without(s, c) == LET Other(x) == x # c IN SelectSeq(s, Other)

\* the last position of c in s, 0 when there is none
LastOf(s, c) ==
    IF \E i \in 1..Len(s) : s[i] = c
    THEN CHOOSE i \in 1..Len(s) : s[i] = c /\ \A j \in 1..Len(s) : s[j] = c => j <= i
    ELSE 0

Returned == ppc = "ret"

Matched == Returned /\ parsed.currency # JNull

\* C8: in a token with both ',' and '.', the one that occurs last is the
\* decimal separator and the other is removed everywhere; "$1,234.56" and
\* "€1.234,56" both give 1234.56 with their currency.
C8_LaterSeparatorIsDecimal ==
    /\ (Matched /\ LastOf(parsed.amount_text.s, ",") # 0 /\ LastOf(parsed.amount_text.s, ".") # 0) =>
        LET tok == parsed.amount_text.s
            decimal == IF LastOf(tok, ",") > LastOf(tok, ".") THEN "," ELSE "."
            other == IF decimal = "," THEN "." ELSE ","
            kept == Without(tok, other)
            numeral == [i \in 1..Len(kept) |-> IF kept[i] = decimal THEN "." ELSE kept[i]]
        IN parsed.amount_value = PyFloat(numeral)
    /\ (Returned /\ text = JStr(USD_1_234_56)) =>
        /\ parsed.currency = JStr(<<"$">>)
        /\ parsed.amount_value = JNum(<<"1", "2", "3", "4", ".", "5", "6">>)
    /\ (Returned /\ text = JStr(EUR_1_234_56)) =>
        /\ parsed.currency = JStr(<<EURO>>)
        /\ parsed.amount_value = JNum(<<"1", "2", "3", "4", ".", "5", "6">>)

\* a token with a thousands comma and a decimal dot, and a value
C8_Witness ==
    /\ Matched
    /\ LastOf(parsed.amount_text.s, ",") # 0
    /\ LastOf(parsed.amount_text.s, ".") > LastOf(parsed.amount_text.s, ",")
    /\ parsed.amount_value # JNull
    /\ text # JStr(USD_1_234_56)

\* C9: a text of digits only gives that number as amount_value and no
\* currency.
C9_DigitsOnly ==
    (Returned /\ text.t = "str" /\ text.s # <<>> /\ \A i \in 1..Len(text.s) : IsDigit(text.s[i]))
        => parsed.currency = JNull /\ parsed.amount_value = PyFloat(text.s)

\* C10: None, "" and a text of whitespace only (non-breaking spaces too)
\* give currency, amount_text and amount_value all null.
C10_BlankGivesNulls ==
    (Returned /\ (text.t # "str" \/ \A i \in 1..Len(text.s) : IsSpace(text.s[i])))
        => parsed.currency = JNull /\ parsed.amount_text = JNull /\ parsed.amount_value = JNull

\* a text of a space and a non-breaking space has been parsed
C10_Witness ==
    /\ Returned
    /\ text.t = "str"
    /\ Len(text.s) > 1
    /\ \E i \in 1..Len(text.s) : text.s[i] = NBSP
    /\ \E i \in 1..Len(text.s) : text.s[i] = SPACE
    /\ \A i \in 1..Len(text.s) : IsSpace(text.s[i])
    /\ parsed.amount_text = JNull

\* one or two characters, all digits
IsOneOrTwoDigits(s) == Len(s) \in 1..2 /\ \A i \in 1..Len(s) : IsDigit(s[i])

\* the part of s after the last c
AfterLast(s, c) == SubSeq(s, LastOf(s, c) + 1, Len(s))

\* the decimal separator the rules give a token: the later of "," and "."
\* when it has both, its only separator when 1 or 2 digits follow the last
\* one, "none" otherwise
InferredDecimal(tok) ==
    IF LastOf(tok, ",") # 0 /\ LastOf(tok, ".") # 0
    THEN IF LastOf(tok, ",") > LastOf(tok, ".") THEN "," ELSE "."
    ELSE IF LastOf(tok, ",") # 0
    THEN IF IsOneOrTwoDigits(AfterLast(tok, ",")) THEN "," ELSE "none"
    ELSE IF LastOf(tok, ".") # 0
    THEN IF IsOneOrTwoDigits(AfterLast(tok, ".")) THEN "." ELSE "none"
    ELSE "none"

\* the token with its thousands separators removed and its decimal
\* separator written as "."
Normalised(tok) ==
    LET d == InferredDecimal(tok)
        kept == IF d = "," THEN Without(tok, ".")
                ELSE IF d = "." THEN Without(tok, ",")
                ELSE Without(Without(tok, ","), ".")
    IN [i \in 1..Len(kept) |-> IF kept[i] = d THEN "." ELSE kept[i]]

\* digits with at most one decimal point, and at least one digit
WellFormedNumeral(s) ==
    /\ \A i \in 1..Len(s) : IsDigit(s[i]) \/ s[i] = "."
    /\ \E i \in 1..Len(s) : IsDigit(s[i])
    /\ Cardinality({i \in 1..Len(s) : s[i] = "."}) <= 1

\* C11: amount_value is non-null only if amount_text is non-null and is,
\* once the inferred thousands separator is removed and the inferred decimal
\* separator is written as ".", digits with at most one decimal point; the
\* tokens "1,2,3" and "." give amount_value null.
C11_ValueOnlyForNumerals ==
    /\ (Returned /\ parsed.amount_value # JNull) =>
        /\ parsed.amount_text.t = "str"
        /\ WellFormedNumeral(Normalised(parsed.amount_text.s))
    /\ (Returned /\ parsed.amount_text \in {JStr(<<"1", ",", "2", ",", "3">>), JStr(<<".">>)}) =>
        parsed.amount_value = JNull

\* a token whose thousands dot was removed and whose decimal comma was
\* rewritten has a value
C11_Witness ==
    /\ Matched
    /\ LastOf(parsed.amount_text.s, ".") # 0
    /\ LastOf(parsed.amount_text.s, ",") > LastOf(parsed.amount_text.s, ".")
    /\ parsed.amount_value # JNull
    /\ text # JStr(EUR_1_234_56)

\* the token has "," or "." but not both
OneKindOfSeparator(tok) == (LastOf(tok, ",") # 0) # (LastOf(tok, ".") # 0)

\* the value is a whole number
IsWhole(v) == v.t = "num" /\ SubSeq(v.s, Len(v.s) - 1, Len(v.s)) = <<".", "0">>

\* C17: the only kind of separator of a token is its decimal separator if
\* and only if 1 or 2 digits follow its last occurrence; otherwise every
\* occurrence is removed and the amount (when the token has one) is a whole
\* number: "1,23" gives 1.23, "1,234" gives 1234, "1.234.567" gives 1234567.
C17_SingleSeparatorRole ==
    /\ (Matched /\ OneKindOfSeparator(parsed.amount_text.s)) =>
        LET tok == parsed.amount_text.s
            sep == IF LastOf(tok, ",") # 0 THEN "," ELSE "."
        IN IF IsOneOrTwoDigits(AfterLast(tok, sep))
           THEN parsed.amount_value = PyFloat([i \in 1..Len(tok) |-> IF tok[i] = sep THEN "." ELSE tok[i]])
           ELSE /\ parsed.amount_value = PyFloat(Without(tok, sep))
                /\ parsed.amount_value # JNull => IsWhole(parsed.amount_value)
    /\ (Returned /\ text = JStr(USD_1_23)) =>
        parsed.amount_value = JNum(<<"1", ".", "2", "3">>)
    /\ (Returned /\ text = JStr(USD_1_234)) =>
        parsed.amount_value = JNum(<<"1", "2", "3", "4", ".", "0">>)
    /\ (Returned /\ text = JStr(USD_1_234_567)) =>
        parsed.amount_value = JNum(<<"1", "2", "3", "4", "5", "6", "7", ".", "0">>)

\* a token whose commas, three digits before the end, were all removed
C17_Witness ==
    /\ Matched
    /\ LastOf(parsed.amount_text.s, ",") # 0
    /\ LastOf(parsed.amount_text.s, ".") = 0
    /\ Len(AfterLast(parsed.amount_text.s, ",")) = 3
    /\ IsWhole(parsed.amount_value)

\* the input as the parser reads it: trimmed of surrounding whitespace
TrimmedText == Strip(text.s)

\* the first maximal run of digits, dots and commas of s
FirstAmountRun(s) ==
    LET a == CHOOSE i \in AmountPositions(s) : \A j \in AmountPositions(s) : i <= j
    IN [start |-> a, run |-> SubSeq(s, a, a + RunLen(s, a, AmountPositions(s)) - 1)]

\* the maximal run of non-digit, non-whitespace characters that ends right
\* before position a of s, whitespace in between skipped
CurrencyBefore(s, a) ==
    LET e == CHOOSE j \in 0..(a - 1) :
                /\ j = 0 \/ ~IsSpace(s[j])
                /\ \A m \in (j + 1)..(a - 1) : IsSpace(s[m])
        b == CHOOSE j \in 1..(e + 1) :
                /\ \A m \in j..e : IsCurrencyChar(s[m])
                /\ j = 1 \/ ~IsCurrencyChar(s[j - 1])
    IN SubSeq(s, b, e)

\* C18: for a text with a numeric token, amount_text is the first maximal
\* run of digits, dots and commas of the text and currency is the maximal
\* run of non-digit, non-whitespace characters right before it, also when
\* the amount comes first ("1,234 USD") or an earlier number has no
\* currency in front of it ("12 $5").
C18_FirstNumericToken ==
    (Returned /\ text.t = "str" /\ \E i \in 1..Len(text.s) : IsDigit(text.s[i])) =>
        LET first == FirstAmountRun(TrimmedText)
        IN /\ parsed.amount_text = JStr(first.run)
           /\ parsed.currency = OrNone(CurrencyBefore(TrimmedText, first.start))

\* the trimmed text has a currency character that an amount character
\* follows, whitespace in between skipped
HasCurrencyAndAmount(s) ==
    \E i, j \in 1..Len(s) :
        /\ i < j
        /\ IsCurrencyChar(s[i])
        /\ IsAmountChar(s[j])
        /\ \A m \in (i + 1)..(j - 1) : IsSpace(s[m])

NonBlank == text.t = "str" /\ \E i \in 1..Len(text.s) : ~IsSpace(text.s[i])

\* C19 as stated: a non-blank input gives a non-null amount_text; without
\* a currency+amount match currency and amount_value are null and
\* amount_text is the input trimmed of surrounding whitespace; a matched
\* token without a value is still reported.
C19_AmountTextIsTrimmedInput ==
    (Returned /\ NonBlank) =>
        /\ parsed.amount_text.t = "str"
        /\ parsed.amount_text.s # <<>>
        /\ IF HasCurrencyAndAmount(TrimmedText)
           THEN /\ parsed.currency # JNull
                /\ \A i \in 1..Len(parsed.amount_text.s) : IsAmountChar(parsed.amount_text.s[i])
           ELSE /\ parsed.currency = JNull
                /\ parsed.amount_value = JNull
                /\ parsed.amount_text = JStr(TrimmedText)

\* C19, amended: a non-blank input gives a non-null amount_text; without a
\* currency+amount match currency and amount_value are null and amount_text
\* is the input trimmed of surrounding whitespace, each non-breaking space
\* inside it written as an ordinary space; a matched token without a value
\* is still reported.
C19_AmountTextAlwaysReported ==
    (Returned /\ NonBlank) =>
        /\ parsed.amount_text.t = "str"
        /\ parsed.amount_text.s # <<>>
        /\ IF HasCurrencyAndAmount(TrimmedText)
           THEN /\ parsed.currency # JNull
                /\ \A i \in 1..Len(parsed.amount_text.s) : IsAmountChar(parsed.amount_text.s[i])
           ELSE /\ parsed.currency = JNull
                /\ parsed.amount_value = JNull
                /\ parsed.amount_text =
                     JStr([i \in 1..Len(TrimmedText) |->
                             IF TrimmedText[i] = NBSP THEN SPACE ELSE TrimmedText[i]])

\* a matched token of several separators has no value and is reported
C19_Witness ==
    /\ Matched
    /\ parsed.amount_value = JNull
    /\ parsed.amount_text.t = "str"
    /\ \E i \in 1..Len(parsed.amount_text.s) : IsDigit(parsed.amount_text.s[i])

\* ------------------------------------------ more claims on _parse_rooms
\* C20: the gallery of every output room holds at most 6 URLs; after each
\* room the used-image set is exactly the union of the galleries assigned so
\* far; an unused own image is left out of a room's gallery only when the
\* gallery is full, and then stays available to later rooms.
C20_GalleryLimitAndUsedSet ==
    /\ \A i \in 1..Len(rooms) : Len(rooms[i].gallery) <= 6
    /\ used_images = GalleriesBefore(Len(rooms) + 1)
    /\ LastItemKept =>
        LET n == Len(rooms)
            left == (Range(OwnImages) \ GalleriesBefore(n)) \ Range(rooms[n].gallery)
        IN /\ left # {} => Len(rooms[n].gallery) = 6
           /\ left \cap used_images = {}

\* the first room listed seven images and took six; the second room got
\* the seventh
C20_Witness ==
    /\ Len(rooms) = 2
    /\ LastItemKept
    /\ hotel_gallery # LongImages
    /\ rooms[1].gallery = Take(LongImages, 6)
    /\ rooms[2].gallery = <<LongImages[7]>>
    /\ used_images = Range(LongImages)

\* ------------------------------ more claims on sanitize_hotels_from_csv
\* the parsed facilities column of row i
RowFacilities(i) ==
    IF csv_rows[i].facilities.kind = "json" THEN csv_rows[i].facilities.val ELSE JNoList

\* the text begins with "see all", in whatever case
BeginsSeeAll(s) ==
    /\ Len(s) >= 7
    /\ \A k \in 1..7 :
        s[k] \in {<<"s", "e", "e", SPACE, "a", "l", "l">>[k], <<"S", "E", "E", SPACE, "A", "L", "L">>[k]}

\* a is b with some entries left out
RECURSIVE IsSubseq(_, _)
IsSubseq(a, b) ==
    IF a = <<>> THEN TRUE
    ELSE IF b = <<>> THEN FALSE
    ELSE IF Head(a) = Head(b) THEN IsSubseq(Tail(a), Tail(b))
    ELSE IsSubseq(a, Tail(b))

\* the non-blank string entries of a facility list that do not begin with
\* "see all", trimmed, in their order
KeptStrings(facilities) ==
    LET Keep(x) == x.t = "str" /\ Strip(x.s) # <<>> /\ ~BeginsSeeAll(Strip(x.s))
        kept == SelectSeq(facilities, Keep)
    IN [k \in 1..Len(kept) |-> Strip(kept[k].s)]

\* C12: no entry of a hotel's service list begins, trimmed and lowercased,
\* with "see all"; every other non-blank string entry of the facilities is
\* kept, trimmed, in the original order.
C12_SeeAllDropped ==
    \A i \in 1..Len(sanitized) :
        /\ \A k \in 1..Len(sanitized[i].service) : ~BeginsSeeAll(sanitized[i].service[k])
        /\ RowFacilities(i).t = "list" =>
            /\ IsSubseq(KeptStrings(RowFacilities(i).v), sanitized[i].service)
            /\ (\A k \in 1..Len(RowFacilities(i).v) : RowFacilities(i).v[k].t = "str")
                  => sanitized[i].service = KeptStrings(RowFacilities(i).v)

\* facilities with "SEE ALL X" and "  see all" in them gave a service list
\* without them
C12_Witness ==
    \E i \in 1..Len(sanitized) :
        /\ RowFacilities(i).t = "list"
        /\ \E k \in 1..Len(RowFacilities(i).v) :
            RowFacilities(i).v[k] = JStr(<<"S", "E", "E", SPACE, "A", "L", "L", SPACE, "X">>)
        /\ \E k \in 1..Len(RowFacilities(i).v) :
            RowFacilities(i).v[k] = JStr(<<SPACE, SPACE, "s", "e", "e", SPACE, "a", "l", "l">>)
        /\ sanitized[i].service = <<<<"S", "p", "a">>>>

\* the parsed value of a JSON column is a list
IsListCol(col) == col.kind = "json" /\ col.val.t = "list"

\* C13: the call never raises because of what a row holds: a JSON column
\* that is unparsable or holds a number, boolean, string or object counts
\* as absent, and every row gives exactly one record, in row order, also a
\* row without a valid room (rooms = []).
C13_OneRecordPerRow ==
    /\ csv_error = "none"
    /\ Len(sanitized) = Len(csv_rows)
    /\ \A i \in 1..Len(sanitized) :
        /\ sanitized[i].title = (IF RowTitle(i) # <<>> THEN RowTitle(i) ELSE <<"Untitled">>)
        /\ ~IsListCol(csv_rows[i].gallery) => sanitized[i].gallery = <<>>
        /\ ~IsListCol(csv_rows[i].facilities) => sanitized[i].service = <<>>
        /\ (~IsListCol(csv_rows[i].rooms) /\ ~IsListCol(csv_rows[i].unnamed))
              => sanitized[i].rooms = <<>>

\* row i has a rating that is a number
HasNumericRating(i) == SanitizerToFloat(csv_rows[i].rating).ok

\* row i has a search price that is a number
HasNumericSearchPrice(i) ==
    /\ csv_rows[i].search_pricing.kind = "json"
    /\ csv_rows[i].search_pricing.val.t = "object"
    /\ \E k \in 1..Len(csv_rows[i].search_pricing.val.v) :
        /\ csv_rows[i].search_pricing.val.v[k][1] = CURRENT_PRICE_AMOUNT
        /\ SanitizerToFloat(csv_rows[i].search_pricing.val.v[k][2]).ok

HasPositiveRoomPrice(i) == \E k \in 1..Len(sanitized[i].rooms) : sanitized[i].rooms[k].price > 0

\* C14 as stated: price and rating are numbers, never null; the price is 0.0
\* without a numeric search price and a positive room price, and the rating
\* is 0.0 without a numeric rating in the row.
C14_PriceAndRatingDefaultZero ==
    \A i \in 1..Len(sanitized) :
        /\ sanitized[i].price \in Int
        /\ sanitized[i].rating \in Int
        /\ (~HasNumericSearchPrice(i) /\ ~HasPositiveRoomPrice(i)) => sanitized[i].price = 0
        /\ ~HasNumericRating(i) => sanitized[i].rating = 0

\* C14, amended: price and rating are numbers, never null; the price is 0.0
\* without a numeric search price and a positive room price; without a
\* numeric rating in the row the rating is the one derived from the
\* facilities, between 3.5 and 5.0, and never 0.0.
C14_PriceDefaultsRatingDerived ==
    \A i \in 1..Len(sanitized) :
        /\ sanitized[i].price \in Int
        /\ sanitized[i].rating \in Int
        /\ (~HasNumericSearchPrice(i) /\ ~HasPositiveRoomPrice(i)) => sanitized[i].price = 0
        /\ ~HasNumericRating(i) => sanitized[i].rating \in 3500..5000

\* a hotel whose search price is not a number and whose rooms have no
\* positive price, without a numeric rating: price 0.0, rating derived
C14_Witness ==
    \E i \in 1..Len(sanitized) :
        /\ csv_rows[i].search_pricing.kind = "json"
        /\ ~HasNumericSearchPrice(i)
        /\ sanitized[i].rooms # <<>>
        /\ ~HasPositiveRoomPrice(i)
        /\ sanitized[i].price = 0
        /\ ~HasNumericRating(i)
        /\ sanitized[i].rating = 4000


\* --------------------------------------------------- dubai_sc.py: the cache
\* driver.get ran for u in this step
Downloaded(u) == downloads'[u] = downloads[u] + 1

\* this step was a call of extract_hotel_details
DetailsCalled == n_entries' = n_entries + 1 /\ entry'.valid

Flushed == SubSeq(hotel_data, 1, Len(hotel_data) - Len(current_batch_data))

\* C16: inside the loop the unsaved batch holds the hotels accepted since the
\* last multiple of 10, once a batch has been saved the CSV rows and the JSON
\* backup are exactly the hotels of the saved batches in acceptance order,
\* every save leaves all hotels accepted so far in both files, and when main
\* is done every accepted hotel is in the CSV file once, in acceptance order.
C16_BatchesWriteEveryHotelOnce ==
    /\ [](mpc = "loop" =>
            /\ Len(current_batch_data) = Len(hotel_data) % 10
            /\ current_batch_num = Len(hotel_data) \div 10
            /\ current_batch_num > 0 => csv_file = Flushed /\ json_file = Flushed)
    /\ [](mpc = "done" /\ hotel_data # <<>> =>
            csv_file = hotel_data /\ json_file = hotel_data)
    /\ [][current_batch_num' # current_batch_num =>
            csv_file' = hotel_data' /\ json_file' = hotel_data']_vars

\* main is done after two full batches and a remainder, one entry skipped
C16_Witness ==
    /\ mpc = "done"
    /\ current_batch_num = 3
    /\ Len(hotel_data) = 21
    /\ Len(current_batch_data) = 1
    /\ skipped_count = 1
    /\ csv_file = hotel_data

\* ------------------------------------------------------- the hotel price
\* the search price of row i, in thousandths
SearchPriceOf(i) ==
    LET pairs == csv_rows[i].search_pricing.val.v
        k == CHOOSE j \in 1..Len(pairs) : pairs[j][1] = CURRENT_PRICE_AMOUNT
    IN SanitizerToFloat(pairs[k][2]).m

IntegersIn(c) ==
    {DigitsValue(SubSeq(c, p[1], p[2])) :
        p \in {p \in (1..Len(c)) \X (1..Len(c)) :
                  /\ p[1] <= p[2]
                  /\ \A j \in p[1]..p[2] : IsDigit(c[j])
                  /\ p[1] = 1 \/ ~IsDigit(c[p[1] - 1])
                  /\ p[2] = Len(c) \/ ~IsDigit(c[p[2] + 1])}}

\* the integers in the value and label fields of the options of the call
OptionIntegers ==
    LET a == derive_arg.availability
    IN UNION {IntegersIn(PyStr(f)) :
                 f \in UNION {{a.v[i].value, a.v[i].label} \ {Absent} :
                                 i \in {i \in 1..Len(a.v) : a.v[i].isdict}}}

\* C22: the quantity of a room is the largest integer found in the value or
\* label of any of its availability options (the largest one of an option
\* that holds several, 0 when 0 is the only one), and 1 when there is none.
C22_QuantityIsLargestInteger ==
    (dpc = "ret" /\ derive_fn = "quantity") =>
        IF OptionIntegers = {}
        THEN derive_result.quantity = 1
        ELSE /\ derive_result.quantity \in OptionIntegers
             /\ \A n \in OptionIntegers : n <= derive_result.quantity

\* ------------------------------------------------------ the hotel rating
\* the rating of row i, in thousandths
RowRating(i) == SanitizerToFloat(csv_rows[i].rating).m

\* 3.5 + min(1.5, (n / 50) * 1.5), in thousandths
FacilityRating(n) == 3500 + (IF 30 * n < 1500 THEN 30 * n ELSE 1500)

\* C23: with a numeric rating in the row the hotel rating is half of it;
\* otherwise it is 3.5 + min(1.5, (n/50)*1.5) for the number n >= 0 of
\* facilities of the hotel, which is 3.5 for no facilities.
C23_RatingFormula ==
    \A i \in 1..Len(sanitized) :
        /\ HasNumericRating(i) => 2 * sanitized[i].rating = RowRating(i)
        /\ ~HasNumericRating(i) =>
              sanitized[i].rating = FacilityRating(Len(sanitized[i].service))

\* C24: among hotels rated by their facilities, a hotel with at most as
\* many facilities as another is rated at most as high, and no rating
\* exceeds 5.0; this includes hotels with 0 and with 1 facility.
C24_RatingMonotonic ==
    \A i, j \in 1..Len(sanitized) :
        (/\ ~HasNumericRating(i)
         /\ ~HasNumericRating(j)
         /\ Len(sanitized[i].service) <= Len(sanitized[j].service))
        => /\ sanitized[i].rating <= sanitized[j].rating
           /\ sanitized[j].rating <= 5000

\* ---------------------------------------------------- the hotel category
\* one of the words occurs in the lowercased title or description of the call
Mentions(words) ==
    \E w \in words :
        \/ Contains(Lower(derive_arg.title), w)
        \/ Contains(Lower(derive_arg.description), w)

\* C25: the category is Apartment when the lowercased title or description
\* holds apartment, suite or studio; else Guesthouse for guest house or
\* guesthouse; else Hostel for hostel; else Resort for resort; else Hotel.
\* A keyword that only the description holds counts like one of the title.
C25_CategoryByPriority ==
    (dpc = "ret" /\ derive_fn = "category") =>
        derive_result.category =
            (IF Mentions({<<"a", "p", "a", "r", "t", "m", "e", "n", "t">>, <<"s", "u", "i", "t", "e">>, <<"s", "t", "u", "d", "i", "o">>}) THEN "Apartment"
             ELSE IF Mentions({<<"g", "u", "e", "s", "t", SPACE, "h", "o", "u", "s", "e">>, <<"g", "u", "e", "s", "t", "h", "o", "u", "s", "e">>}) THEN "Guesthouse"
             ELSE IF Mentions({<<"h", "o", "s", "t", "e", "l">>}) THEN "Hostel"
             ELSE IF Mentions({<<"r", "e", "s", "o", "r", "t">>}) THEN "Resort"
             ELSE "Hotel")

\* ------------------------------------------------------ the room services
ServicesReturned == dpc = "ret" /\ derive_fn = "services"

\* the room at place r of hotel h before and after the call
RoomBefore(h, r) == derive_arg.data[h].rooms[r]
RoomAfter(h, r) == derive_result.data[h].rooms[r]

\* C26: after add_room_services_to_data there are the same hotels and rooms
\* with the same other fields; a room that had a non-empty service list is
\* unchanged; every other room has between 6 and 14 services, all different
\* and all from DUMMY_ROOM_SERVICES; so every room has a non-empty list.
C26_RoomServicesAdded ==
    ServicesReturned =>
        /\ Len(derive_result.data) = Len(derive_arg.data)
        /\ \A h \in 1..Len(derive_arg.data) :
            /\ derive_result.data[h].title = derive_arg.data[h].title
            /\ Len(derive_result.data[h].rooms) = Len(derive_arg.data[h].rooms)
            /\ \A r \in 1..Len(derive_arg.data[h].rooms) :
                /\ RoomAfter(h, r).name = RoomBefore(h, r).name
                /\ RoomAfter(h, r).has_service /\ RoomAfter(h, r).service # <<>>
                /\ (RoomBefore(h, r).has_service /\ RoomBefore(h, r).service # <<>>)
                      => RoomAfter(h, r) = RoomBefore(h, r)
                /\ ~(RoomBefore(h, r).has_service /\ RoomBefore(h, r).service # <<>>)
                      => LET s == RoomAfter(h, r).service
                         IN /\ Len(s) \in 6..14
                            /\ \A i, j \in 1..Len(s) : i # j => s[i] # s[j]
                            /\ \A i \in 1..Len(s) :
                                  \E k \in 1..Len(DUMMY_ROOM_SERVICES) :
                                      s[i] = DUMMY_ROOM_SERVICES[k]

\* a call on two hotels: a room with services of its own next to a room with
\* an empty list that got 14, and a room without the key that got 6
C26_Witness ==
    /\ ServicesReturned
    /\ Len(derive_arg.data) = 2
    /\ \E h \in 1..2 : \E r \in 1..Len(derive_arg.data[h].rooms) :
          /\ RoomBefore(h, r).service # <<>>
          /\ RoomAfter(h, r).service = <<"Balcony">>
    /\ \E h \in 1..2 : \E r \in 1..Len(derive_arg.data[h].rooms) :
          /\ RoomBefore(h, r).has_service /\ RoomBefore(h, r).service = <<>>
          /\ Len(RoomAfter(h, r).service) = 14
    /\ \E h \in 1..2 : \E r \in 1..Len(derive_arg.data[h].rooms) :
          /\ ~RoomBefore(h, r).has_service
          /\ Len(RoomAfter(h, r).service) = 6

\* ------------------------------------------------- collect_hotel_links
\* the places of the page where a hotel path shows for the first time
FirstSeen ==
    {i \in 1..Len(page) :
        /\ page[i] # NoHref
        /\ \A j \in 1..(i - 1) : page[j] = NoHref \/ page[j].path # page[i].path}

ServedFromCache == DetailsCalled /\ use_cache /\ html_cache[entry'.url.slug] # NoHtml

C29_NoSharedCacheEntry ==
    [][\A u \in Urls :
          html_cache'[u.slug] # html_cache[u.slug] =>
              /\ Downloaded(u)
              /\ html_cache'[u.slug] = u]_vars

\* C30: once dubai_sc.main has written a batch, every data row of the CSV
\* has the same columns, in the same order, as the header line written with
\* the first batch, whatever keys the hotels of the later batches have.
C30_RowsMatchHeader ==
    current_batch_num >= 1 =>
        \A k \in 1..Len(csv_fields.rows) : csv_fields.rows[k] = csv_fields.header

====
